---------------------------- MODULE Spec2Model ----------------------------
(***************************************************************************)
(* A model of the structure-classification and chunking core of            *)
(* pdf-rag-parser: src/phases/chunking.py (TextChunker) and                *)
(* src/phases/structure.py (BookmarkAnalyzer, HeuristicAnalyzer,           *)
(* RegexAnalyzer, StructurePhase), and of run_pipeline of src/main.py      *)
(* with CleaningPhase.run of src/phases/cleaning.py between the two.       *)
(*                                                                         *)
(* A Python str is a sequence of one-character strings; an Optional value  *)
(* is a sequence of length 0 (None) or 1.                                  *)
(***************************************************************************)
EXTENDS Integers, Sequences, FiniteSets, TLC

VARIABLES
    \* ---- TextChunker: configuration and input
    max_chunk_size, chunk_overlap, split_by_paragraph, split_by_sentence,
    split_by_word, text_blocks, chapters_config,
    \* ---- TextChunker.run: locals
    cpc, chapter_map, block_groups, group_idx, chunks, chunk_num, metadata,
    \* ---- TextChunker._create_chunks_from_group: locals
    block_idx, group_chunks, g_chunk_num, current_chunk_content,
    current_chunk_page, current_chapter_info,
    \* ---- StructurePhase: configuration and input
    use_bookmarks, use_heuristics, use_regex, font_size_threshold,
    heading_isolation_threshold, s_text_blocks, bookmarks,
    \* ---- StructurePhase.run: locals and result
    spc, block_types, block_levels, method_used, structured_blocks,
    s_metadata, exception,
    \* ---- what the previous run on the same instances returned, if any
    previous,
    \* ---- run_pipeline: its position, the phases whose run was called, the
    \* ---- output of the cleaning phase, the status of sys.exit
    ppc, phases_run, cleaned_blocks, exit_status

chunk_config == <<max_chunk_size, chunk_overlap, split_by_paragraph,
                  split_by_sentence, split_by_word>>
chunk_input  == <<text_blocks, chapters_config>>
chunk_run    == <<cpc, chapter_map, block_groups, group_idx, chunks, chunk_num,
                  metadata>>
chunk_group  == <<block_idx, group_chunks, g_chunk_num, current_chunk_content,
                  current_chunk_page, current_chapter_info>>
chunk_vars   == <<chunk_config, chunk_input, chunk_run, chunk_group>>

struct_config == <<use_bookmarks, use_heuristics, use_regex,
                   font_size_threshold, heading_isolation_threshold>>
struct_input  == <<s_text_blocks, bookmarks>>
struct_run    == <<spc, block_types, block_levels, method_used,
                   structured_blocks, s_metadata, exception>>
struct_vars   == <<struct_config, struct_input, struct_run>>

pipe_vars == <<ppc, phases_run, cleaned_blocks, exit_status>>

vars == <<chunk_vars, struct_vars, previous, pipe_vars>>

-----------------------------------------------------------------------------
(* Bounds of the model *)

\* the most units (words, sentences) of a generated block content
MaxUnits == 3
\* the most blocks of one run of several blocks
MaxBlocks == 3
\* the highest page number of a block
MaxPage == 3

-----------------------------------------------------------------------------
(* Python str operations *)

None == << >>
Some(x) == << x >>

\* str.strip(), str.split() and the regex class \s: whitespace
Whitespace == {" ", "\n", "\t"}

\* the characters before a sentence boundary, [.!?]
SentenceEnd == {".", "!", "?"}

RECURSIVE LStrip(_)
LStrip(s) ==
    IF s = << >> THEN s
    ELSE IF Head(s) \in Whitespace THEN LStrip(Tail(s)) ELSE s

RECURSIVE RStrip(_)
RStrip(s) ==
    IF s = << >> THEN s
    ELSE IF s[Len(s)] \in Whitespace THEN RStrip(SubSeq(s, 1, Len(s) - 1))
    ELSE s

\* a strip that removes nothing
StripNothing(s) == s

\* str.strip()
Strip(s) == RStrip(LStrip(s))

\* text.split("\n\n"): cut at each non-overlapping blank line, left to right;
\* cur is the piece being read
RECURSIVE SplitBlankLines(_, _)
SplitBlankLines(s, cur) ==
    IF s = << >> THEN << cur >>
    ELSE IF Len(s) >= 2 /\ s[1] = "\n" /\ s[2] = "\n"
         THEN << cur >> \o SplitBlankLines(SubSeq(s, 3, Len(s)), << >>)
         ELSE SplitBlankLines(Tail(s), Append(cur, Head(s)))

\* re.split(r"(?<=[.!?])\s+", text): cut at each whitespace run that follows
\* a sentence end; prev is the character before s (None at the start)
RECURSIVE ReSplitSentences(_, _, _)
ReSplitSentences(s, cur, prev) ==
    IF s = << >> THEN << cur >>
    ELSE IF prev # None /\ prev[1] \in SentenceEnd /\ Head(s) \in Whitespace
         THEN << cur >> \o ReSplitSentences(LStrip(s), << >>, Some(" "))
         ELSE ReSplitSentences(Tail(s), Append(cur, Head(s)), Some(Head(s)))

\* [s.strip() for s in pieces if s.strip()]
RECURSIVE StripNonEmpty(_)
StripNonEmpty(pieces) ==
    IF pieces = << >> THEN << >>
    ELSE IF Strip(Head(pieces)) = << >> THEN StripNonEmpty(Tail(pieces))
         ELSE << Strip(Head(pieces)) >> \o StripNonEmpty(Tail(pieces))

\* text.split(): the maximal whitespace-free runs
RECURSIVE SplitWords(_, _)
SplitWords(s, cur) ==
    IF s = << >> THEN (IF cur = << >> THEN << >> ELSE << cur >>)
    ELSE IF Head(s) \in Whitespace
         THEN (IF cur = << >> THEN << >> ELSE << cur >>)
              \o SplitWords(Tail(s), << >>)
         ELSE SplitWords(Tail(s), Append(cur, Head(s)))

-----------------------------------------------------------------------------
(* TextChunker: the cascade split *)

_split_by_sentences(text) == StripNonEmpty(ReSplitSentences(text, << >>, None))

\* WordLoop with the joining space left out of the size test
RECURSIVE WordLoopNoSeparator(_, _, _)
WordLoopNoSeparator(words, current_chunk, out) ==
    IF words = << >>
    THEN (IF current_chunk # << >> THEN Append(out, current_chunk) ELSE out)
    ELSE LET word == Head(words) IN
         IF Len(current_chunk) + Len(word) <= max_chunk_size
         THEN WordLoopNoSeparator(Tail(words),
                       (IF current_chunk # << >> THEN current_chunk \o << " " >>
                        ELSE current_chunk) \o word,
                       out)
         ELSE WordLoopNoSeparator(Tail(words), word,
                       IF current_chunk # << >> THEN Append(out, current_chunk)
                       ELSE out)

\* the loop of _split_by_words; returns the chunks, the last one flushed
RECURSIVE WordLoop(_, _, _)
WordLoop(words, current_chunk, out) ==
    IF words = << >>
    THEN (IF current_chunk # << >> THEN Append(out, current_chunk) ELSE out)
    ELSE LET word == Head(words) IN
         IF Len(current_chunk) + Len(word) + 1 <= max_chunk_size
         THEN WordLoop(Tail(words),
                       (IF current_chunk # << >> THEN current_chunk \o << " " >>
                        ELSE current_chunk) \o word,
                       out)
         ELSE WordLoop(Tail(words), word,
                       IF current_chunk # << >> THEN Append(out, current_chunk)
                       ELSE out)

\* _split_by_words with the loop starting at the second word
_split_by_wordsAfterFirst(text) ==
    WordLoop(Tail(SplitWords(text, << >>)), << >>, << >>)

_split_by_words(text) == WordLoop(SplitWords(text, << >>), << >>, << >>)

\* the inner loop of _chunk_text with the joining space left out of the size
\* test
RECURSIVE SentenceLoopUncountedSpace(_, _, _)
SentenceLoopUncountedSpace(sentences, para_chunk, out) ==
    IF sentences = << >>
    THEN (IF para_chunk # << >> THEN Append(out, para_chunk) ELSE out)
    ELSE LET sentence == Head(sentences) IN
         IF Len(para_chunk) + Len(sentence) <= max_chunk_size
         THEN SentenceLoopUncountedSpace(Tail(sentences),
                           (IF para_chunk # << >> THEN para_chunk \o << " " >>
                            ELSE para_chunk) \o sentence,
                           out)
         ELSE LET saved == IF para_chunk # << >> THEN Append(out, para_chunk)
                           ELSE out
              IN IF Len(sentence) <= max_chunk_size
                 THEN SentenceLoopUncountedSpace(Tail(sentences), sentence, saved)
                 ELSE IF split_by_word
                      THEN SentenceLoopUncountedSpace(Tail(sentences), << >>,
                                        saved \o _split_by_words(sentence))
                      ELSE SentenceLoopUncountedSpace(Tail(sentences), << >>,
                                        Append(saved, sentence))

\* the inner loop of _chunk_text over the sentences of an oversized paragraph
RECURSIVE SentenceLoop(_, _, _)
SentenceLoop(sentences, para_chunk, out) ==
    IF sentences = << >>
    THEN (IF para_chunk # << >> THEN Append(out, para_chunk) ELSE out)
    ELSE LET sentence == Head(sentences) IN
         IF Len(para_chunk) + Len(sentence) + 1 <= max_chunk_size
         THEN SentenceLoop(Tail(sentences),
                           (IF para_chunk # << >> THEN para_chunk \o << " " >>
                            ELSE para_chunk) \o sentence,
                           out)
         ELSE LET saved == IF para_chunk # << >> THEN Append(out, para_chunk)
                           ELSE out
              IN IF Len(sentence) <= max_chunk_size
                 THEN SentenceLoop(Tail(sentences), sentence, saved)
                 ELSE IF split_by_word
                      THEN SentenceLoop(Tail(sentences), << >>,
                                        saved \o _split_by_words(sentence))
                      ELSE SentenceLoop(Tail(sentences), << >>,
                                        Append(saved, sentence))

\* the outer loop of _chunk_text over the paragraphs
RECURSIVE ParagraphLoop(_, _, _)
ParagraphLoop(paragraphs, current_chunk, out) ==
    IF paragraphs = << >>
    THEN (IF current_chunk # << >> THEN Append(out, current_chunk) ELSE out)
    ELSE LET paragraph == Strip(Head(paragraphs)) IN
         IF paragraph = << >>
         THEN ParagraphLoop(Tail(paragraphs), current_chunk, out)
         ELSE IF Len(current_chunk) + Len(paragraph) + 2 <= max_chunk_size
         THEN ParagraphLoop(Tail(paragraphs),
                            (IF current_chunk # << >>
                             THEN current_chunk \o << "\n", "\n" >>
                             ELSE current_chunk) \o paragraph,
                            out)
         ELSE LET saved == IF current_chunk # << >>
                           THEN Append(out, current_chunk) ELSE out
              IN IF Len(paragraph) <= max_chunk_size
                 THEN ParagraphLoop(Tail(paragraphs), paragraph, saved)
                 ELSE LET sentences == IF split_by_sentence
                                       THEN _split_by_sentences(paragraph)
                                       ELSE << paragraph >>
                      IN ParagraphLoop(Tail(paragraphs), << >>,
                                       SentenceLoop(sentences, << >>, saved))

\* _chunk_text splitting at blank lines whatever split_by_paragraph is
_chunk_textAlwaysParagraphs(text) ==
    IF text = << >> \/ Len(text) <= max_chunk_size
    THEN (IF text # << >> THEN << text >> ELSE << >>)
    ELSE ParagraphLoop(SplitBlankLines(text, << >>), << >>, << >>)

_chunk_text(text) ==
    IF text = << >> \/ Len(text) <= max_chunk_size
    THEN (IF text # << >> THEN << text >> ELSE << >>)
    ELSE ParagraphLoop(IF split_by_paragraph THEN SplitBlankLines(text, << >>)
                       ELSE << text >>,
                       << >>, << >>)


-----------------------------------------------------------------------------
(* TextChunker: chapters and groups *)

UnknownInfo == [chapter |-> "Unknown", part |-> "Unknown"]

\* the pages range(start_page, end_page + 1) of one chapter configuration
ChapterPages(chapter) == chapter.start_page .. chapter.end_page

\* _build_chapter_map: page -> {chapter, part}; a later chapter overwrites
\* an earlier one on the pages they share
RECURSIVE _build_chapter_map(_)
_build_chapter_map(config) ==
    IF config = << >> THEN << >>
    ELSE LET chapter == config[Len(config)]
             before  == _build_chapter_map(SubSeq(config, 1, Len(config) - 1))
         IN [page_num \in (DOMAIN before) \cup ChapterPages(chapter) |->
                IF page_num \in ChapterPages(chapter)
                THEN [chapter |-> chapter.name, part |-> chapter.part]
                ELSE before[page_num]]

\* a lookup that finds no page in the map
_get_chapter_infoUnknown(page_num, map) == UnknownInfo

\* chapter_map.get(page_num, {"chapter": "Unknown", "part": "Unknown"})
_get_chapter_info(page_num, map) ==
    IF page_num \in DOMAIN map THEN map[page_num] ELSE UnknownInfo

\* the loop of _group_blocks_by_chapter
RECURSIVE GroupLoop(_, _, _, _, _)
GroupLoop(blocks, map, groups, current_group, current_chapter) ==
    IF blocks = << >>
    THEN (IF current_group # << >> THEN Append(groups, current_group)
          ELSE groups)
    ELSE LET block == Head(blocks)
             block_chapter == _get_chapter_info(block.page_num, map).chapter
         IN IF current_chapter = None
            THEN GroupLoop(Tail(blocks), map, groups,
                           Append(current_group, block), Some(block_chapter))
            ELSE IF Some(block_chapter) = current_chapter
            THEN GroupLoop(Tail(blocks), map, groups,
                           Append(current_group, block), current_chapter)
            ELSE GroupLoop(Tail(blocks), map,
                           IF current_group # << >>
                           THEN Append(groups, current_group) ELSE groups,
                           << block >>, Some(block_chapter))

_group_blocks_by_chapter(blocks, map) ==
    IF DOMAIN map = {} THEN << blocks >>
    ELSE GroupLoop(blocks, map, << >>, << >>, None)

-----------------------------------------------------------------------------
(* TextChunker: chunks *)

\* Chunk(...) with __post_init__: char_count defaults to len(content)
Chunk(content, num, page, info) ==
    [content        |-> content,
     chunk_num      |-> num,
     source_page    |-> page,
     source_chapter |-> info.chapter,
     source_part    |-> info.part,
     char_count     |-> Len(content)]

\* the chunks of the pieces of a cascade-split block, numbered from num on
SplitChunks(pieces, num, page, info) ==
    [i \in 1..Len(pieces) |-> Chunk(pieces[i], num + i - 1, page, info)]

RECURSIVE SumCharCount(_)
SumCharCount(cs) ==
    IF cs = << >> THEN 0 ELSE Head(cs).char_count + SumCharCount(Tail(cs))

\* the size of the first chunk taken for the smallest
MinCharCountOfFirst(cs) == cs[1].char_count

MinCharCount(cs) ==
    CHOOSE m \in {cs[i].char_count : i \in 1..Len(cs)} :
        \A i \in 1..Len(cs) : m <= cs[i].char_count

MaxCharCount(cs) ==
    CHOOSE m \in {cs[i].char_count : i \in 1..Len(cs)} :
        \A i \in 1..Len(cs) : m >= cs[i].char_count

\* ChunkingMetadata with the sizes of an empty chunk list left at sentinels:
\* the smallest size at -1, the average at the quotient 0 / 0
ChunkingMetadataEmptySentinel(cs) ==
    [total_chunks     |-> Len(cs),
     total_characters |-> SumCharCount(cs),
     avg_chunk_size   |-> [num |-> SumCharCount(cs), den |-> Len(cs)],
     min_chunk_size   |-> IF cs # << >> THEN MinCharCount(cs) ELSE -1,
     max_chunk_size   |-> IF cs # << >> THEN MaxCharCount(cs) ELSE 0]

\* ChunkingMetadata; avg_chunk_size is the quotient total_chars / len(chunks),
\* kept as its numerator and denominator
ChunkingMetadata(cs) ==
    [total_chunks     |-> Len(cs),
     total_characters |-> SumCharCount(cs),
     avg_chunk_size   |-> IF cs # << >>
                          THEN [num |-> SumCharCount(cs), den |-> Len(cs)]
                          ELSE [num |-> 0, den |-> 1],
     min_chunk_size   |-> IF cs # << >> THEN MinCharCount(cs) ELSE 0,
     max_chunk_size   |-> IF cs # << >> THEN MaxCharCount(cs) ELSE 0]

NoMetadata == None

\* run, line 88, with the number of chunks of the group left out
NextChunkNumPlusOne(num, group) == num + 1

\* run, line 88: chunk_num += len(group_chunks)
NextChunkNum(num, group) == num + Len(group)

-----------------------------------------------------------------------------
(* TextChunker.run, one step per loop iteration *)

\* run, line 74, with the numbering going on where the previous run on the
\* instance stopped
FirstChunkNumContinued(left_over) == IF left_over = 0 THEN 1 ELSE left_over

\* run, line 74: chunk_num = 1, whatever an earlier run left
FirstChunkNum(left_over) == 1

\* run, lines 73-80: the chapter map and the groups
ChunkerStart ==
    /\ cpc = "start"
    /\ chapter_map' = _build_chapter_map(chapters_config)
    /\ block_groups' = _group_blocks_by_chapter(text_blocks, chapter_map')
    /\ chunks' = << >>
    /\ chunk_num' = FirstChunkNum(chunk_num)
    /\ group_idx' = 1
    /\ cpc' = "groups"
    /\ UNCHANGED <<chunk_config, chunk_input, metadata, chunk_group>>
    /\ UNCHANGED struct_vars
    /\ UNCHANGED previous
    /\ UNCHANGED pipe_vars

\* _create_chunks_from_group, lines 180-184: a group's locals
GroupBegin ==
    /\ cpc = "groups"
    /\ group_idx <= Len(block_groups)
    /\ LET group_blocks == block_groups[group_idx] IN
       /\ group_chunks' = << >>
       /\ g_chunk_num' = chunk_num
       /\ current_chunk_content' = << >>
       /\ current_chunk_page' = IF group_blocks # << >>
                                THEN group_blocks[1].page_num ELSE 1
       /\ current_chapter_info' = None
       /\ block_idx' = 1
    /\ cpc' = "blocks"
    /\ UNCHANGED <<chunk_config, chunk_input, chapter_map, block_groups,
                   group_idx, chunks, chunk_num, metadata>>
    /\ UNCHANGED struct_vars
    /\ UNCHANGED previous
    /\ UNCHANGED pipe_vars

\* the chunk after a flush beginning with the last characters of the
\* flushed one, chunk_overlap of them
ChunkAfterFlushOverlapping(flushed_content, block_content, overlap) ==
    LET n == IF overlap < 0 THEN 0
             ELSE IF overlap > Len(flushed_content) THEN Len(flushed_content)
             ELSE overlap
    IN SubSeq(flushed_content, Len(flushed_content) - n + 1,
              Len(flushed_content)) \o block_content

\* _create_chunks_from_group, line 224: the chunk after a flush begins with
\* the block alone, whatever chunk_overlap is
ChunkAfterFlush(flushed_content, block_content, overlap) == block_content

\* _create_chunks_from_group, lines 186-239: one iteration of the block loop
BlockStep ==
    /\ cpc = "blocks"
    /\ block_idx <= Len(block_groups[group_idx])
    /\ LET block == block_groups[group_idx][block_idx]
           chapter_info == _get_chapter_info(block.page_num, chapter_map)
           first == current_chapter_info = None
           info == IF first THEN chapter_info ELSE current_chapter_info[1]
           page == IF first THEN block.page_num ELSE current_chunk_page
           block_content == Strip(block.content)
           potential_size == Len(current_chunk_content) + Len(block_content) + 2
           flushed == IF current_chunk_content # << >>
                      THEN << Chunk(current_chunk_content, g_chunk_num, page,
                                    info) >>
                      ELSE << >>
           num == g_chunk_num + Len(flushed)
       IN
       /\ current_chapter_info' = Some(info)
       /\ block_idx' = block_idx + 1
       /\ IF block_content = << >>
          THEN /\ current_chunk_page' = page
               /\ UNCHANGED <<group_chunks, g_chunk_num, current_chunk_content>>
          ELSE IF potential_size <= max_chunk_size
          THEN /\ current_chunk_content' =
                     (IF current_chunk_content # << >>
                      THEN current_chunk_content \o << "\n", "\n" >>
                      ELSE current_chunk_content) \o block_content
               /\ current_chunk_page' = page
               /\ UNCHANGED <<group_chunks, g_chunk_num>>
          ELSE IF Len(block_content) <= max_chunk_size
          THEN /\ group_chunks' = group_chunks \o flushed
               /\ g_chunk_num' = num
               /\ current_chunk_content' =
                      ChunkAfterFlush(current_chunk_content, block_content,
                                      chunk_overlap)
               /\ current_chunk_page' = block.page_num
          ELSE LET split_chunks == _chunk_text(block_content) IN
               /\ group_chunks' = group_chunks \o flushed
                     \o SplitChunks(split_chunks, num, block.page_num,
                                    chapter_info)
               /\ g_chunk_num' = num + Len(split_chunks)
               /\ current_chunk_content' = << >>
               /\ current_chunk_page' = page
    /\ UNCHANGED <<chunk_config, chunk_input, chunk_run>>
    /\ UNCHANGED struct_vars
    /\ UNCHANGED previous
    /\ UNCHANGED pipe_vars

\* _create_chunks_from_group, lines 241-260, and run, lines 87-88: the final
\* chunk of the group, then chunks.extend and the next chunk number
GroupEnd ==
    /\ cpc = "blocks"
    /\ block_idx > Len(block_groups[group_idx])
    /\ LET final == IF current_chunk_content # << >>
                    THEN << Chunk(current_chunk_content, g_chunk_num,
                                  current_chunk_page,
                                  IF current_chapter_info # None
                                  THEN current_chapter_info[1]
                                  ELSE UnknownInfo) >>
                    ELSE << >>
       IN /\ group_chunks' = group_chunks \o final
          /\ chunks' = chunks \o group_chunks'
          /\ chunk_num' = NextChunkNum(chunk_num, group_chunks')
    /\ group_idx' = group_idx + 1
    /\ cpc' = "groups"
    /\ UNCHANGED <<chunk_config, chunk_input, chapter_map, block_groups,
                   metadata, block_idx, g_chunk_num, current_chunk_content,
                   current_chunk_page, current_chapter_info>>
    /\ UNCHANGED struct_vars
    /\ UNCHANGED previous
    /\ UNCHANGED pipe_vars

\* run, lines 90-109: the metadata and the return
ChunkerFinish ==
    /\ cpc = "groups"
    /\ group_idx > Len(block_groups)
    /\ metadata' = Some(ChunkingMetadata(chunks))
    /\ cpc' = "done"
    /\ UNCHANGED <<chunk_config, chunk_input, chapter_map, block_groups,
                   group_idx, chunks, chunk_num, chunk_group>>
    /\ UNCHANGED struct_vars
    /\ UNCHANGED previous
    /\ UNCHANGED pipe_vars

ChunkNext ==
    \/ ChunkerStart
    \/ GroupBegin
    \/ BlockStep
    \/ GroupEnd
    \/ ChunkerFinish


-----------------------------------------------------------------------------
(* Regular expressions: the fragment RegexAnalyzer uses *)

Digit == {"0", "1", "2", "3", "4", "5", "6", "7", "8", "9"}

UpperCase == << "A", "B", "C", "D", "E", "F", "G", "H", "I", "J", "K", "L", "M",
                "N", "O", "P", "Q", "R", "S", "T", "U", "V", "W", "X", "Y", "Z" >>
LowerCase == << "a", "b", "c", "d", "e", "f", "g", "h", "i", "j", "k", "l", "m",
                "n", "o", "p", "q", "r", "s", "t", "u", "v", "w", "x", "y", "z" >>

\* re.IGNORECASE: a character and its other case
BothCases(c) ==
    {c} \cup { UpperCase[i] : i \in { j \in 1..26 : LowerCase[j] = c } }
        \cup { LowerCase[i] : i \in { j \in 1..26 : UpperCase[j] = c } }

IgnoreCase(set) == UNION { BothCases(c) : c \in set }

\* the elements of a pattern: one character of a class, x+, x*
One(set)  == [kind |-> "one",  set |-> IgnoreCase(set)]
Plus(set) == [kind |-> "plus", set |-> IgnoreCase(set)]
Star(set) == [kind |-> "star", set |-> IgnoreCase(set)]

\* a literal word, character by character
Lit(chars) == [i \in 1..Len(chars) |-> One({chars[i]})]

\* pattern.match(s): whether the pattern matches a prefix of s
RECURSIVE ReMatch(_, _)
ReMatch(pattern, s) ==
    IF pattern = << >> THEN TRUE
    ELSE LET e == Head(pattern) IN
         CASE e.kind = "one" ->
                 /\ s # << >>
                 /\ Head(s) \in e.set
                 /\ ReMatch(Tail(pattern), Tail(s))
           [] e.kind = "plus" ->
                 /\ s # << >>
                 /\ Head(s) \in e.set
                 /\ (ReMatch(pattern, Tail(s)) \/ ReMatch(Tail(pattern), Tail(s)))
           [] e.kind = "star" ->
                 \/ (s # << >> /\ Head(s) \in e.set /\ ReMatch(pattern, Tail(s)))
                 \/ ReMatch(Tail(pattern), s)

-----------------------------------------------------------------------------
(* BookmarkAnalyzer *)

\* BookmarkAnalyzer.analyze, lines 96-103: bookmark level -> heading type
BookmarkType(level) ==
    IF level = 0 THEN "PART_HEADING"
    ELSE IF level = 1 THEN "CHAPTER_HEADING"
    ELSE IF level = 2 THEN "SECTION_HEADING"
    ELSE "SUBSECTION_HEADING"

\* BookmarkAnalyzer.analyze: page -> (type, level); a later bookmark of a
\* page overwrites an earlier one
RECURSIVE BookmarkAnalyze(_)
BookmarkAnalyze(marks) ==
    IF marks = << >> THEN << >>
    ELSE LET bookmark == marks[Len(marks)]
             before   == BookmarkAnalyze(SubSeq(marks, 1, Len(marks) - 1))
         IN [page \in (DOMAIN before) \cup {bookmark.page} |->
                IF page = bookmark.page
                THEN [type  |-> BookmarkType(bookmark.level),
                      level |-> bookmark.level]
                ELSE before[page]]

-----------------------------------------------------------------------------
(* HeuristicAnalyzer *)

\* _is_header_or_footer: the nominal page height, in points
PageHeight == 800
\* _is_header_or_footer: a shorter text may be a header or a footer
ShortTextLimit == 100
\* _classify_block, line 187: a header starts above this y0
HeaderBelow == 100
\* _is_isolated: the gap to the neighbouring block, in points
IsolationGap == 20
\* _is_centered: the width a page is taken to have when none was measured
DefaultPageWidth == 600

Abs(x) == IF x < 0 THEN 0 - x ELSE x

Truthy(optional_number) == optional_number # None /\ optional_number[1] # 0

\* _collect_statistics: the positive font sizes, in block order
RECURSIVE CollectFontSizes(_)
CollectFontSizes(blocks) ==
    IF blocks = << >> THEN << >>
    ELSE LET block == Head(blocks) IN
         (IF Truthy(block.font_size) /\ block.font_size[1] > 0
          THEN << block.font_size[1] >> ELSE << >>)
         \o CollectFontSizes(Tail(blocks))

\* _collect_statistics: page -> the largest x1 - x0 of its blocks
CollectPageWidths(blocks) ==
    [page \in { blocks[i].page_num : i \in 1..Len(blocks) } |->
        CHOOSE w \in { blocks[i].x1 - blocks[i].x0 :
                         i \in { j \in 1..Len(blocks) : blocks[j].page_num = page } } :
            \A i \in 1..Len(blocks) :
                blocks[i].page_num = page => blocks[i].x1 - blocks[i].x0 <= w]

\* _is_header_or_footer with the two limits of the zone counted in
_is_header_or_footerInclusive(block) ==
    LET is_top    == 10 * block.y0 <= PageHeight
        is_bottom == 10 * block.y0 >= 9 * PageHeight
        is_short  == Len(block.content) < ShortTextLimit
    IN (is_top \/ is_bottom) /\ is_short

\* _is_header_or_footer: y0 < 800 * 0.1 or y0 > 800 * 0.9, and a short text
_is_header_or_footer(block) ==
    LET is_top    == 10 * block.y0 < PageHeight
        is_bottom == 10 * block.y0 > 9 * PageHeight
        is_short  == Len(block.content) < ShortTextLimit
    IN (is_top \/ is_bottom) /\ is_short

_is_isolated(block, all_blocks, block_idx0) ==
    LET before_isolated ==
            \/ block_idx0 = 1
            \/ all_blocks[block_idx0 - 1].page_num # block.page_num
            \/ Abs(all_blocks[block_idx0 - 1].y1 - block.y0) > IsolationGap
        after_isolated ==
            \/ block_idx0 = Len(all_blocks)
            \/ all_blocks[block_idx0 + 1].page_num # block.page_num
            \/ Abs(block.y1 - all_blocks[block_idx0 + 1].y0) > IsolationGap
    IN before_isolated /\ after_isolated

\* _is_centered: abs((x0 + x1) / 2 - page_width / 2) < page_width * 0.1,
\* both sides multiplied by 10
_is_centered(block, page_widths) ==
    LET page_width == IF block.page_num \in DOMAIN page_widths
                      THEN page_widths[block.page_num] ELSE DefaultPageWidth
    IN 5 * Abs((block.x0 + block.x1) - page_width) < page_width

\* sorted_sizes.index(size): the sizes smaller than it
IndexInSorted(font_sizes, size) ==
    Cardinality({ i \in 1..Len(font_sizes) : font_sizes[i] < size })

\* _determine_heading_level, for a size that is among the collected ones:
\* percentile = index / len, compared with 0.9, 0.75 and 0.6
_determine_heading_level(block, font_sizes) ==
    IF ~Truthy(block.font_size) \/ font_sizes = << >> THEN 3
    ELSE LET n == Len(font_sizes)
             index == IndexInSorted(font_sizes, block.font_size[1])
         IN IF 10 * index >= 9 * n THEN 0
            ELSE IF 4 * index >= 3 * n THEN 1
            ELSE IF 5 * index >= 3 * n THEN 2
            ELSE 3

\* HeuristicAnalyzer._get_heading_type
_get_heading_type(level) ==
    CASE level = 0 -> "PART_HEADING"
      [] level = 1 -> "CHAPTER_HEADING"
      [] level = 2 -> "SECTION_HEADING"
      [] level = 3 -> "SUBSECTION_HEADING"
      [] OTHER     -> "BODY_TEXT"

\* the number of true values among the four signals
CountTrue(signals) == Cardinality({ i \in 1..Len(signals) : signals[i] })

Classified(type, level) == [raises |-> "", type |-> type, level |-> level]
Raises(error) == [raises |-> error, type |-> "UNKNOWN", level |-> 0]

\* _classify_block with the score compared strictly
HeuristicScoreReachesStrict(count) == 25 * count > heading_isolation_threshold

\* _classify_block, lines 196-198: sum(signals) / 4.0 >= the threshold, the
\* threshold counted in hundredths
HeuristicScoreReaches(count) == 25 * count >= heading_isolation_threshold

\* HeuristicAnalyzer._classify_block; sum([None, ...]) raises TypeError for a
\* block without a font size, and list.index raises ValueError for a size
\* that was not collected
HeuristicClassify(block, all_blocks, block_idx0, font_sizes, page_widths) ==
    IF _is_header_or_footer(block)
    THEN Classified(IF block.y0 < HeaderBelow THEN "HEADER" ELSE "FOOTER", 0)
    ELSE IF block.font_size = None
    THEN Raises("TypeError")
    ELSE LET is_large_font == /\ block.font_size[1] # 0
                              /\ block.font_size[1] >= font_size_threshold
             is_bold       == block.is_bold
             is_isolated   == _is_isolated(block, all_blocks, block_idx0)
             is_centered   == _is_centered(block, page_widths)
             count == CountTrue(<< is_large_font, is_bold, is_isolated,
                                   is_centered >>)
         IN IF HeuristicScoreReaches(count)
            THEN IF /\ Truthy(block.font_size)
                    /\ font_sizes # << >>
                    /\ \A i \in 1..Len(font_sizes) :
                          font_sizes[i] # block.font_size[1]
                 THEN Raises("ValueError")
                 ELSE LET level == _determine_heading_level(block, font_sizes)
                      IN Classified(_get_heading_type(level), level)
            ELSE Classified("BODY_TEXT", 0)

\* an analysis that leaves undecided the blocks it takes for body text
HeuristicAnalyzeBodyUnknown(blocks) ==
    LET font_sizes  == CollectFontSizes(blocks)
        page_widths == CollectPageWidths(blocks)
        Result(i) == HeuristicClassify(blocks[i], blocks, i, font_sizes,
                                       page_widths)
    IN [i \in 1..Len(blocks) |->
           IF Result(i).type = "BODY_TEXT" THEN Classified("UNKNOWN", 0)
           ELSE Result(i)]

\* HeuristicAnalyzer.analyze: the statistics, then every block in order
HeuristicAnalyze(blocks) ==
    LET font_sizes  == CollectFontSizes(blocks)
        page_widths == CollectPageWidths(blocks)
    IN [i \in 1..Len(blocks) |->
           HeuristicClassify(blocks[i], blocks, i, font_sizes, page_widths)]

\* the exception analyze ends with: that of the first block that raises
FirstRaise(results) ==
    IF \E i \in 1..Len(results) : results[i].raises # ""
    THEN results[CHOOSE i \in 1..Len(results) :
                    /\ results[i].raises # ""
                    /\ \A j \in 1..(i - 1) : results[j].raises = ""].raises
    ELSE ""

-----------------------------------------------------------------------------
(* RegexAnalyzer *)

\* _build_patterns: the patterns of each group
PartPatterns ==
    << \* ^Part\s+[IVX]+\s*:
       Lit(<< "P", "a", "r", "t" >>)
           \o << Plus(Whitespace), Plus({"I", "V", "X"}), Star(Whitespace), One({":"}) >>,
       \* ^Part\s+\d+\s*:
       Lit(<< "P", "a", "r", "t" >>)
           \o << Plus(Whitespace), Plus(Digit), Star(Whitespace), One({":"}) >> >>

ChapterPatterns ==
    << \* ^Chapter\s+\d+\s*:
       Lit(<< "C", "h", "a", "p", "t", "e", "r" >>)
           \o << Plus(Whitespace), Plus(Digit), Star(Whitespace), One({":"}) >>,
       \* ^Ch\.\s+\d+\s*:
       Lit(<< "C", "h", "." >>)
           \o << Plus(Whitespace), Plus(Digit), Star(Whitespace), One({":"}) >> >>

SectionPatterns ==
    << \* ^\d+\.\d+\s+
       << Plus(Digit), One({"."}), Plus(Digit), Plus(Whitespace) >>,
       \* ^Section\s+\d+\s*:
       Lit(<< "S", "e", "c", "t", "i", "o", "n" >>)
           \o << Plus(Whitespace), Plus(Digit), Star(Whitespace), One({":"}) >> >>

SubsectionPatterns ==
    << \* ^\d+\.\d+\.\d+\s+
       << Plus(Digit), One({"."}), Plus(Digit), One({"."}), Plus(Digit),
          Plus(Whitespace) >> >>

\* _build_patterns: the groups in the order of the dict
PatternGroups ==
    << [type |-> "PART_HEADING",       patterns |-> PartPatterns],
       [type |-> "CHAPTER_HEADING",    patterns |-> ChapterPatterns],
       [type |-> "SECTION_HEADING",    patterns |-> SectionPatterns],
       [type |-> "SUBSECTION_HEADING", patterns |-> SubsectionPatterns] >>

\* RegexAnalyzer._get_level
_get_level(block_type) ==
    CASE block_type = "PART_HEADING"       -> 0
      [] block_type = "CHAPTER_HEADING"    -> 1
      [] block_type = "SECTION_HEADING"    -> 2
      [] block_type = "SUBSECTION_HEADING" -> 3
      [] OTHER                             -> 0

AnyMatch(patterns, content) ==
    \E i \in 1..Len(patterns) : ReMatch(patterns[i], content)

\* RegexAnalyzer._classify_block: the first group with a matching pattern
RECURSIVE RegexLoop(_, _)
RegexLoop(groups, content) ==
    IF groups = << >> THEN Classified("BODY_TEXT", 0)
    ELSE IF AnyMatch(Head(groups).patterns, content)
         THEN Classified(Head(groups).type, _get_level(Head(groups).type))
         ELSE RegexLoop(Tail(groups), content)

\* _classify_block on the text as it is, not trimmed
RegexClassifyUntrimmed(block) == RegexLoop(PatternGroups, block.content)

\* _classify_block, line 341: the text is trimmed first
RegexClassify(block) == RegexLoop(PatternGroups, Strip(block.content))

\* RegexAnalyzer.analyze
RegexAnalyze(blocks) == [i \in 1..Len(blocks) |-> RegexClassify(blocks[i])]

-----------------------------------------------------------------------------
(* StructurePhase: structured blocks and hierarchy *)

\* a pointer that is set and holds a non-empty text: "if current_section:"
TruthyText(pointer) == pointer # None /\ pointer[1] # << >>

\* StructuredTextBlock(...) built without the font attributes of the block
StructuredTextBlockWithoutFont(text_block, block_type, hierarchy_level, parent_heading) ==
    [content         |-> text_block.content,
     page_num        |-> text_block.page_num,
     x0              |-> text_block.x0,
     y0              |-> text_block.y0,
     x1              |-> text_block.x1,
     y1              |-> text_block.y1,
     block_type      |-> block_type,
     font_name       |-> None,
     font_size       |-> None,
     font_weight     |-> None,
     is_bold         |-> FALSE,
     is_italic       |-> FALSE,
     char_count      |-> Len(text_block.content),
     hierarchy_level |-> hierarchy_level,
     parent_heading  |-> parent_heading]

\* StructuredTextBlock(...) with __post_init__
StructuredTextBlock(text_block, block_type, hierarchy_level, parent_heading) ==
    [content         |-> text_block.content,
     page_num        |-> text_block.page_num,
     x0              |-> text_block.x0,
     y0              |-> text_block.y0,
     x1              |-> text_block.x1,
     y1              |-> text_block.y1,
     block_type      |-> block_type,
     font_name       |-> text_block.font_name,
     font_size       |-> text_block.font_size,
     font_weight     |-> text_block.font_weight,
     is_bold         |-> text_block.is_bold,
     is_italic       |-> text_block.is_italic,
     char_count      |-> IF text_block.char_count = 0
                         THEN Len(text_block.content)
                         ELSE text_block.char_count,
     hierarchy_level |-> hierarchy_level,
     parent_heading  |-> parent_heading]

\* the loop of _create_structured_blocks with a chapter heading leaving the
\* current section as it is
RECURSIVE StructuredLoopKeepingSection(_, _, _, _, _, _, _)
StructuredLoopKeepingSection(blocks, types, levels, idx0, part0, chapter0, section0) ==
    IF idx0 > Len(blocks) THEN << >>
    ELSE LET text_block == blocks[idx0]
             block_type == types[idx0]
             part    == IF block_type = "PART_HEADING"
                        THEN Some(text_block.content) ELSE part0
             chapter == IF block_type = "PART_HEADING" THEN None
                        ELSE IF block_type = "CHAPTER_HEADING"
                        THEN Some(text_block.content) ELSE chapter0
             section == IF block_type = "PART_HEADING" THEN None
                        ELSE IF block_type = "SECTION_HEADING"
                        THEN Some(text_block.content) ELSE section0
             parent_heading ==
                 IF block_type = "BODY_TEXT"
                 THEN IF TruthyText(section) THEN section
                      ELSE IF TruthyText(chapter) THEN chapter
                      ELSE IF TruthyText(part) THEN part
                      ELSE None
                 ELSE None
         IN << StructuredTextBlock(text_block, block_type, levels[idx0],
                                   parent_heading) >>
            \o StructuredLoopKeepingSection(blocks, types, levels, idx0 + 1,
                                            part, chapter, section)

\* the loop of _create_structured_blocks, from block idx0 on
RECURSIVE StructuredLoop(_, _, _, _, _, _, _)
StructuredLoop(blocks, types, levels, idx0, part0, chapter0, section0) ==
    IF idx0 > Len(blocks) THEN << >>
    ELSE LET text_block == blocks[idx0]
             block_type == types[idx0]
             part    == IF block_type = "PART_HEADING"
                        THEN Some(text_block.content) ELSE part0
             chapter == IF block_type = "PART_HEADING" THEN None
                        ELSE IF block_type = "CHAPTER_HEADING"
                        THEN Some(text_block.content) ELSE chapter0
             section == IF block_type \in {"PART_HEADING", "CHAPTER_HEADING"}
                        THEN None
                        ELSE IF block_type = "SECTION_HEADING"
                        THEN Some(text_block.content) ELSE section0
             parent_heading ==
                 IF block_type = "BODY_TEXT"
                 THEN IF TruthyText(section) THEN section
                      ELSE IF TruthyText(chapter) THEN chapter
                      ELSE IF TruthyText(part) THEN part
                      ELSE None
                 ELSE None
         IN << StructuredTextBlock(text_block, block_type, levels[idx0],
                                   parent_heading) >>
            \o StructuredLoop(blocks, types, levels, idx0 + 1, part, chapter,
                              section)

_create_structured_blocks(blocks, types, levels) ==
    StructuredLoop(blocks, types, levels, 1, None, None, None)

PartNode(block) ==
    [type |-> "part", title |-> block.content, page |-> block.page_num,
     chapters |-> << >>]
ChapterNode(block) ==
    [type |-> "chapter", title |-> block.content, page |-> block.page_num,
     sections |-> << >>]
SectionNode(block) ==
    [type |-> "section", title |-> block.content, page |-> block.page_num]
UnnamedChapter(section) ==
    [type |-> "chapter",
     title |-> << "U", "n", "n", "a", "m", "e", "d", " ",
                  "C", "h", "a", "p", "t", "e", "r" >>,
     sections |-> << section >>]

\* the hierarchy with x appended to the chapters of its last node, the
\* current part
AddChapter(hierarchy, x) ==
    [hierarchy EXCEPT ![Len(hierarchy)].chapters = Append(@, x)]

\* the hierarchy with x appended to the sections of the last chapter of its
\* last node
AddSectionInPart(hierarchy, x) ==
    [hierarchy EXCEPT ![Len(hierarchy)].chapters =
        [@ EXCEPT ![Len(@)].sections = Append(@, x)]]

\* the hierarchy with x appended to the sections of its last node, a chapter
\* at the root
AddSectionAtRoot(hierarchy, x) ==
    [hierarchy EXCEPT ![Len(hierarchy)].sections = Append(@, x)]

\* the loop of _build_hierarchy with a section that has no open chapter
\* always put under a new 'Unnamed Chapter'
RECURSIVE HierarchyLoopAlwaysUnnamed(_, _, _, _)
HierarchyLoopAlwaysUnnamed(blocks, hierarchy, has_part, chapter_at) ==
    IF blocks = << >> THEN hierarchy
    ELSE LET block == Head(blocks) IN
         CASE block.block_type = "PART_HEADING" ->
                 HierarchyLoopAlwaysUnnamed(Tail(blocks), Append(hierarchy, PartNode(block)),
                               TRUE, "none")
           [] block.block_type = "CHAPTER_HEADING" ->
                 IF has_part
                 THEN HierarchyLoopAlwaysUnnamed(Tail(blocks),
                                    AddChapter(hierarchy, ChapterNode(block)),
                                    has_part, "part")
                 ELSE HierarchyLoopAlwaysUnnamed(Tail(blocks),
                                    Append(hierarchy, ChapterNode(block)),
                                    has_part, "root")
           [] block.block_type = "SECTION_HEADING" ->
                 IF chapter_at = "part"
                 THEN HierarchyLoopAlwaysUnnamed(Tail(blocks),
                                    AddSectionInPart(hierarchy, SectionNode(block)),
                                    has_part, chapter_at)
                 ELSE IF chapter_at = "root"
                 THEN HierarchyLoopAlwaysUnnamed(Tail(blocks),
                                    AddSectionAtRoot(hierarchy, SectionNode(block)),
                                    has_part, chapter_at)
                 ELSE IF has_part
                 THEN IF TRUE
                      THEN HierarchyLoopAlwaysUnnamed(Tail(blocks),
                               AddChapter(hierarchy,
                                          UnnamedChapter(SectionNode(block))),
                               has_part, chapter_at)
                      ELSE HierarchyLoopAlwaysUnnamed(Tail(blocks),
                               AddSectionInPart(hierarchy, SectionNode(block)),
                               has_part, chapter_at)
                 ELSE HierarchyLoopAlwaysUnnamed(Tail(blocks), hierarchy, has_part,
                                    chapter_at)
           [] OTHER ->
                 HierarchyLoopAlwaysUnnamed(Tail(blocks), hierarchy, has_part, chapter_at)

\* the loop of _build_hierarchy. has_part: current_part is set, and is the
\* last node of the hierarchy; chapter_at: where the dict current_chapter
\* refers to lies: "none" (not set), "root" (the last node of the hierarchy),
\* "part" (the last chapter of the current part)
RECURSIVE HierarchyLoop(_, _, _, _)
HierarchyLoop(blocks, hierarchy, has_part, chapter_at) ==
    IF blocks = << >> THEN hierarchy
    ELSE LET block == Head(blocks) IN
         CASE block.block_type = "PART_HEADING" ->
                 HierarchyLoop(Tail(blocks), Append(hierarchy, PartNode(block)),
                               TRUE, "none")
           [] block.block_type = "CHAPTER_HEADING" ->
                 IF has_part
                 THEN HierarchyLoop(Tail(blocks),
                                    AddChapter(hierarchy, ChapterNode(block)),
                                    has_part, "part")
                 ELSE HierarchyLoop(Tail(blocks),
                                    Append(hierarchy, ChapterNode(block)),
                                    has_part, "root")
           [] block.block_type = "SECTION_HEADING" ->
                 IF chapter_at = "part"
                 THEN HierarchyLoop(Tail(blocks),
                                    AddSectionInPart(hierarchy, SectionNode(block)),
                                    has_part, chapter_at)
                 ELSE IF chapter_at = "root"
                 THEN HierarchyLoop(Tail(blocks),
                                    AddSectionAtRoot(hierarchy, SectionNode(block)),
                                    has_part, chapter_at)
                 ELSE IF has_part
                 THEN IF hierarchy[Len(hierarchy)].chapters = << >>
                      THEN HierarchyLoop(Tail(blocks),
                               AddChapter(hierarchy,
                                          UnnamedChapter(SectionNode(block))),
                               has_part, chapter_at)
                      ELSE HierarchyLoop(Tail(blocks),
                               AddSectionInPart(hierarchy, SectionNode(block)),
                               has_part, chapter_at)
                 ELSE HierarchyLoop(Tail(blocks), hierarchy, has_part,
                                    chapter_at)
           [] OTHER ->
                 HierarchyLoop(Tail(blocks), hierarchy, has_part, chapter_at)

_build_hierarchy(blocks) == HierarchyLoop(blocks, << >>, FALSE, "none")

CountType(types, type) == Cardinality({ i \in 1..Len(types) : types[i] = type })

\* StructureMetadata(...), without its timestamp
StructureMetadata(blocks, types, methods, hierarchy) ==
    [total_blocks      |-> Len(blocks),
     classified_blocks |->
         Cardinality({ i \in 1..Len(types) :
                         types[i] \notin {"BODY_TEXT", "HEADER", "FOOTER"} }),
     parts_found       |-> CountType(types, "PART_HEADING"),
     chapters_found    |-> CountType(types, "CHAPTER_HEADING"),
     sections_found    |-> CountType(types, "SECTION_HEADING"),
     structure_method  |-> methods,
     hierarchy         |-> hierarchy]

-----------------------------------------------------------------------------
(* StructurePhase.run, one step per pass *)

\* run, lines 396-399
StructStart ==
    /\ spc = "start"
    /\ block_types' = [i \in 1..Len(s_text_blocks) |-> "UNKNOWN"]
    /\ block_levels' = [i \in 1..Len(s_text_blocks) |-> 0]
    /\ method_used' = << >>
    /\ spc' = "bookmarks"
    /\ UNCHANGED <<struct_config, struct_input, structured_blocks, s_metadata,
                   exception>>
    /\ UNCHANGED chunk_vars
    /\ UNCHANGED previous
    /\ UNCHANGED pipe_vars

\* run, lines 408-411: every block of a bookmarked page gets the type and the
\* level of the page
ApplyBookmarks(types, levels, blocks, page_map) ==
    [types  |-> [i \in 1..Len(blocks) |->
                    IF blocks[i].page_num \in DOMAIN page_map
                    THEN page_map[blocks[i].page_num].type ELSE types[i]],
     levels |-> [i \in 1..Len(blocks) |->
                    IF blocks[i].page_num \in DOMAIN page_map
                    THEN page_map[blocks[i].page_num].level ELSE levels[i]]]

\* the merge of a pass with every block overwritten
FillAll(types, levels, results) ==
    [types  |-> [i \in 1..Len(types) |-> results[i].type],
     levels |-> [i \in 1..Len(types) |-> results[i].level]]

\* run, lines 422-425 and 436-439: a pass fills the blocks still UNKNOWN
FillUnknown(types, levels, results) ==
    [types  |-> [i \in 1..Len(types) |->
                    IF types[i] = "UNKNOWN" THEN results[i].type ELSE types[i]],
     levels |-> [i \in 1..Len(types) |->
                    IF types[i] = "UNKNOWN" THEN results[i].level ELSE levels[i]]]

\* run, lines 401-413: method 1, bookmarks
BookmarkPass ==
    /\ spc = "bookmarks"
    /\ IF use_bookmarks /\ bookmarks # << >>
       THEN LET applied == ApplyBookmarks(block_types, block_levels,
                                          s_text_blocks,
                                          BookmarkAnalyze(bookmarks))
            IN /\ block_types' = applied.types
               /\ block_levels' = applied.levels
               /\ method_used' = Append(method_used, "bookmarks")
       ELSE UNCHANGED <<block_types, block_levels, method_used>>
    /\ spc' = "heuristics"
    /\ UNCHANGED <<struct_config, struct_input, structured_blocks, s_metadata,
                   exception>>
    /\ UNCHANGED chunk_vars
    /\ UNCHANGED previous
    /\ UNCHANGED pipe_vars

\* run, lines 415-427: method 2, heuristics; an exception of the analyzer
\* ends the run
HeuristicPass ==
    /\ spc = "heuristics"
    /\ IF use_heuristics
       THEN LET results == HeuristicAnalyze(s_text_blocks)
                filled  == FillUnknown(block_types, block_levels, results)
            IN IF FirstRaise(results) # ""
               THEN /\ exception' = FirstRaise(results)
                    /\ spc' = "raised"
                    /\ UNCHANGED <<block_types, block_levels, method_used>>
               ELSE /\ block_types' = filled.types
                    /\ block_levels' = filled.levels
                    /\ method_used' = Append(method_used, "heuristics")
                    /\ spc' = "regex"
                    /\ UNCHANGED exception
       ELSE /\ spc' = "regex"
            /\ UNCHANGED <<block_types, block_levels, method_used, exception>>
    /\ UNCHANGED <<struct_config, struct_input, structured_blocks, s_metadata>>
    /\ UNCHANGED chunk_vars
    /\ UNCHANGED previous
    /\ UNCHANGED pipe_vars

\* run, lines 429-441: method 3, regex patterns
RegexPass ==
    /\ spc = "regex"
    /\ IF use_regex
       THEN LET filled == FillUnknown(block_types, block_levels,
                                      RegexAnalyze(s_text_blocks))
            IN /\ block_types' = filled.types
               /\ block_levels' = filled.levels
               /\ method_used' = Append(method_used, "regex")
       ELSE UNCHANGED <<block_types, block_levels, method_used>>
    /\ spc' = "default"
    /\ UNCHANGED <<struct_config, struct_input, structured_blocks, s_metadata,
                   exception>>
    /\ UNCHANGED chunk_vars
    /\ UNCHANGED previous
    /\ UNCHANGED pipe_vars

\* the default with the blocks still UNKNOWN left so
DefaultNothing(types, levels) == [types |-> types, levels |-> levels]

\* run, lines 443-447: the blocks still UNKNOWN become BODY_TEXT, level 0
DefaultToBodyText(types, levels) ==
    [types  |-> [i \in 1..Len(types) |->
                    IF types[i] = "UNKNOWN" THEN "BODY_TEXT" ELSE types[i]],
     levels |-> [i \in 1..Len(types) |->
                    IF types[i] = "UNKNOWN" THEN 0 ELSE levels[i]]]

\* run, lines 443-485: the default, the structured blocks, the hierarchy, the
\* metadata and the return
StructFinish ==
    /\ spc = "default"
    /\ LET final == DefaultToBodyText(block_types, block_levels) IN
       /\ block_types' = final.types
       /\ block_levels' = final.levels
       /\ structured_blocks' =
              _create_structured_blocks(s_text_blocks, final.types, final.levels)
       /\ s_metadata' =
              Some(StructureMetadata(s_text_blocks, final.types, method_used,
                                     _build_hierarchy(structured_blocks')))
    /\ spc' = "done"
    /\ UNCHANGED <<struct_config, struct_input, method_used, exception>>
    /\ UNCHANGED chunk_vars
    /\ UNCHANGED previous
    /\ UNCHANGED pipe_vars

StructNext ==
    \/ StructStart
    \/ BookmarkPass
    \/ HeuristicPass
    \/ RegexPass
    \/ StructFinish

-----------------------------------------------------------------------------
(* StructurePhase: the inputs of the model *)

\* the texts of the blocks of tests/test_structure.py, and two short ones
TextBody == << "B", "o", "d", "y", "." >>
TextSection == << "1", ".", "1", " ", "B" >>
TextPartI == << "P", "a", "r", "t", " ", "I", ":", " ", "T", "h", "e", " ",
    "B", "e", "g", "i", "n", "n", "i", "n", "g" >>
TextChapter1 == << "C", "h", "a", "p", "t", "e", "r", " ", "1", ":", " ", "I",
    "n", "t", "r", "o", "d", "u", "c", "t", "i", "o", "n" >>
TextBackground == << "1", ".", "1", " ", "B", "a", "c", "k", "g", "r", "o",
    "u", "n", "d" >>
TextInformation == << "T", "h", "i", "s", " ", "i", "s", " ", "b", "o", "d",
    "y", " ", "t", "e", "x", "t", " ", "w", "i", "t", "h", " ", "i", "m", "p",
    "o", "r", "t", "a", "n", "t", " ", "i", "n", "f", "o", "r", "m", "a", "t",
    "i", "o", "n", "." >>
TextChapterShort == << "C", "h", "a", "p", "t", "e", "r", " ", "1" >>
TextBodyText == << "T", "h", "i", "s", " ", "i", "s", " ", "b", "o", "d", "y",
    " ", "t", "e", "x", "t", "." >>

\* a text of ShortTextLimit characters: too long for a header or a footer
TextLong == [i \in 1..ShortTextLimit |-> "x"]
\* the longest text that may be a header or a footer
TextAlmostLong == [i \in 1..(ShortTextLimit - 1) |-> "x"]

\* the texts of the regex inputs: lead, keyword, gap, number, tail
Leads ==
    { << >>,
      << " " >> }
\* a keyword of a pattern, or none, or nearly one
Keywords ==
    { << >>,
      << "P", "a", "r", "t" >>,
      << "p", "a", "r", "t" >>,
      << "C", "h", "a", "p", "t", "e", "r" >>,
      << "C", "h", "." >>,
      << "C", "h" >>,
      << "S", "e", "c", "t", "i", "o", "n" >> }
\* the whitespace after the keyword
Gaps ==
    { << >>,
      << " " >>,
      << " ", "\t" >> }
\* a roman or decimal number, dotted or not
Numbers ==
    { << >>,
      << "I" >>,
      << "i", "v" >>,
      << "1" >>,
      << "1", "2" >>,
      << "1", ".", "1" >>,
      << "1", ".", "1", ".", "1" >> }
\* what follows the number
Tails ==
    { << >>,
      << ":" >>,
      << " ", ":" >>,
      << " ", "x" >>,
      << ":", " ", "x" >> }

RegexTexts ==
    { l \o k \o g \o n \o t :
        l \in Leads, k \in Keywords, g \in Gaps, n \in Numbers, t \in Tails }

\* the bounding boxes of the model
Layout(x0, y0, x1, y1) == [x0 |-> x0, y0 |-> y0, x1 |-> x1, y1 |-> y1]
\* a line as wide as the page
LayoutFull == Layout(0, 100, 600, 120)
\* a narrow box at the left, right below it
LayoutNear == Layout(50, 130, 150, 150)
\* a narrow box around the middle of a 600 point page
LayoutTitle == Layout(250, 200, 350, 250)
\* a narrow box at the left
LayoutLeft == Layout(50, 300, 150, 320)
\* the top and the bottom of the page
LayoutTop == Layout(0, 10, 600, 30)
LayoutBottom == Layout(0, 750, 600, 770)
\* the last point of the top tenth of the page and the first below it
LayoutTopInside == Layout(0, 79, 600, 99)
LayoutTopEdge == Layout(0, 80, 600, 100)
\* the first point of the bottom tenth of the page and the last above it
LayoutBottomInside == Layout(0, 721, 600, 741)
LayoutBottomEdge == Layout(0, 720, 600, 740)

\* TextBlock(...) with __post_init__: char_count defaults to len(content)
TextBlock(content, page_num, layout, font_size, is_bold) ==
    [content     |-> content,
     page_num    |-> page_num,
     x0          |-> layout.x0,
     y0          |-> layout.y0,
     x1          |-> layout.x1,
     y1          |-> layout.y1,
     font_name   |-> None,
     font_size   |-> font_size,
     font_weight |-> None,
     is_bold     |-> is_bold,
     is_italic   |-> FALSE,
     char_count  |-> Len(content)]

Bookmark(level, page) == [level |-> level, title |-> << "T" >>, page |-> page]

\* the deepest bookmark level of the model
MaxBookmarkLevel == 4
\* the most blocks of one run of the structure phase
MaxStructBlocks == 2
\* the pages of the blocks of the structure phase
StructPages == {1, 2}

SeqsUpTo(set, n) == UNION { [1..k -> set] : k \in 0..n }

Flags(b, h, r) == [use_bookmarks |-> b, use_heuristics |-> h, use_regex |-> r]
AllFlags == { Flags(b, h, r) : b \in BOOLEAN, h \in BOOLEAN, r \in BOOLEAN }

StructInput(blocks, marks, flags, threshold) ==
    [blocks |-> blocks, bookmarks |-> marks, flags |-> flags,
     threshold |-> threshold]

\* heuristics alone: every layout, font size and weight, on one or two pages
HeuristicBlocks ==
    { TextBlock(TextBody, page, layout, font, bold) :
        page \in StructPages,
        layout \in {LayoutFull, LayoutNear, LayoutTitle, LayoutLeft},
        font \in {None, Some(12), Some(14), Some(18)},
        bold \in BOOLEAN }
    \cup { TextBlock(TextBody, 1, LayoutTop, Some(18), TRUE),
           TextBlock(TextBody, 1, LayoutBottom, Some(18), TRUE),
           TextBlock(TextBody, 1, LayoutBottom, None, FALSE),
           TextBlock(TextLong, 1, LayoutTop, Some(18), TRUE),
           TextBlock(TextAlmostLong, 1, LayoutTop, Some(18), TRUE),
           TextBlock(TextBody, 1, LayoutTopInside, Some(18), TRUE),
           TextBlock(TextBody, 1, LayoutTopEdge, Some(18), TRUE),
           TextBlock(TextBody, 1, LayoutBottomInside, Some(12), FALSE),
           TextBlock(TextBody, 1, LayoutBottomEdge, Some(18), TRUE),
           TextBlock(TextBody, 1, LayoutFull, Some(0), TRUE),
           TextBlock(TextBody, 1, LayoutFull, Some(-1), TRUE) }

HeuristicInputs ==
    { StructInput(blocks, << >>, Flags(FALSE, TRUE, FALSE), threshold) :
        blocks \in SeqsUpTo(HeuristicBlocks, MaxStructBlocks),
        threshold \in {50, 70, 100} }

\* the fusion of the passes: every flag combination, bookmarks of every
\* level, section-like and body texts
FusionBlocks ==
    { TextBlock(content, page, LayoutFull, font, FALSE) :
        content \in {TextSection, TextBody},
        page \in StructPages,
        font \in {Some(12), Some(18)} }

BookmarkLists ==
    { << >> }
    \cup { << Bookmark(level, page) >> :
             level \in 0..MaxBookmarkLevel, page \in StructPages }
    \cup { << Bookmark(0, 1), Bookmark(1, 2) >>,
           << Bookmark(1, 1), Bookmark(2, 1) >>,
           << Bookmark(2, 1), Bookmark(0, 1) >>,
           << Bookmark(MaxBookmarkLevel, 2), Bookmark(1, 2) >> }

FusionInputs ==
    { StructInput(blocks, marks, flags, 70) :
        blocks \in SeqsUpTo(FusionBlocks, MaxStructBlocks),
        marks \in BookmarkLists,
        flags \in AllFlags }

\* regex alone, and regex with bookmarks: one block of each text
RegexInputs ==
    { StructInput(<< TextBlock(content, 1, LayoutFull, None, FALSE) >>,
                  << >>, Flags(b, FALSE, TRUE), 70) :
        content \in RegexTexts, b \in BOOLEAN }

\* tests/test_structure.py, test_run_with_combined_methods
CombinedBlocks ==
    << TextBlock(TextPartI, 1, Layout(250, 100, 350, 150), Some(20), TRUE),
       TextBlock(TextChapter1, 5, Layout(250, 100, 350, 150), Some(18), TRUE),
       TextBlock(TextBackground, 10, Layout(0, 100, 600, 120), Some(14), FALSE),
       TextBlock(TextInformation, 11, Layout(0, 150, 600, 170), Some(12),
                 FALSE) >>
CombinedBookmarks == << Bookmark(0, 1), Bookmark(1, 5) >>

\* tests/test_structure.py, test_analyze_simple_blocks
SimpleBlocks ==
    << TextBlock(TextChapterShort, 1, Layout(250, 100, 350, 150), Some(18), TRUE),
       TextBlock(TextBodyText, 1, Layout(50, 200, 550, 220), Some(12), FALSE) >>

TestInputs ==
    { StructInput(blocks, marks, flags, 70) :
        blocks \in {CombinedBlocks, SimpleBlocks},
        marks \in {<< >>, CombinedBookmarks},
        flags \in AllFlags }

\* the pointer rules: one block on each of the pages 1..HierarchyPages, and
\* for each page no bookmark or a bookmark of one of the levels 0..3
HierarchyPages == 4

HierarchyText(page) == [k \in 1..page |-> "h"]

HierarchyBlocks ==
    [page \in 1..HierarchyPages |->
        TextBlock(HierarchyText(page), page, LayoutFull, Some(12), FALSE)]

\* the bookmarks of the pages from page on, for the level of each page
\* (-1: the page has no bookmark)
RECURSIVE HierarchyBookmarks(_, _)
HierarchyBookmarks(level_of, page) ==
    IF page > HierarchyPages THEN << >>
    ELSE (IF level_of[page] < 0 THEN << >>
          ELSE << Bookmark(level_of[page], page) >>)
         \o HierarchyBookmarks(level_of, page + 1)

HierarchyInputs ==
    { StructInput(HierarchyBlocks, HierarchyBookmarks(level_of, 1),
                  Flags(TRUE, FALSE, FALSE), 70) :
        level_of \in [1..HierarchyPages -> -1..3] }

\* a bookmarked page 1 with one block, then a block of page 2 at the top,
\* at the bottom or in the body of its page, left to the heuristic pass
HeaderFooterInputs ==
    { StructInput(<< TextBlock(TextSection, 1, LayoutFull, Some(12), FALSE),
                     TextBlock(TextBody, 2, layout, Some(12), FALSE) >>,
                  << Bookmark(level, 1) >>, Flags(TRUE, TRUE, FALSE), 70) :
        layout \in {LayoutTop, LayoutBottom, LayoutFull}, level \in 0..2 }

StructInputs ==
    HeuristicInputs \cup FusionInputs \cup RegexInputs \cup TestInputs
        \cup HierarchyInputs \cup HeaderFooterInputs

\* HeuristicAnalyzer.__init__: the default font_size_threshold
DefaultFontSizeThreshold == 14

StructInit ==
    /\ \E in \in StructInputs :
          /\ s_text_blocks = in.blocks
          /\ bookmarks = in.bookmarks
          /\ use_bookmarks = in.flags.use_bookmarks
          /\ use_heuristics = in.flags.use_heuristics
          /\ use_regex = in.flags.use_regex
          /\ heading_isolation_threshold = in.threshold
    /\ font_size_threshold = DefaultFontSizeThreshold
    /\ spc = "start"
    /\ block_types = << >>
    /\ block_levels = << >>
    /\ method_used = << >>
    /\ structured_blocks = << >>
    /\ s_metadata = None
    /\ exception = ""

\* the structure phase is not run
StructIdle ==
    /\ s_text_blocks = << >>
    /\ bookmarks = << >>
    /\ use_bookmarks = TRUE
    /\ use_heuristics = TRUE
    /\ use_regex = TRUE
    /\ heading_isolation_threshold = 70
    /\ font_size_threshold = DefaultFontSizeThreshold
    /\ spc = "idle"
    /\ block_types = << >>
    /\ block_levels = << >>
    /\ method_used = << >>
    /\ structured_blocks = << >>
    /\ s_metadata = None
    /\ exception = ""

-----------------------------------------------------------------------------
(* TextChunker: the inputs of the model *)

\* the units block contents are generated from: a word, a sentence, and a
\* word longer than every max_chunk_size of the model
Units == { << "a" >>, << "a", "." >>, << "a", "a", "a", "a", "a", "a" >> }

\* what separates two units: a space, a blank line
Separators == { << " " >>, << "\n", "\n" >> }

\* the contents of exactly k units
RECURSIVE ContentsOf(_)
ContentsOf(k) ==
    IF k = 1 THEN Units
    ELSE { c \o s \o u : c \in ContentsOf(k - 1), s \in Separators, u \in Units }

\* empty and whitespace-only contents
BlankContents == { << >>, << " " >>, << "\n", "\n", " " >> }

GeneratedContents ==
    BlankContents \cup UNION { ContentsOf(k) : k \in 1..MaxUnits }

\* the contents of the runs of several blocks: blank, a block that merges, a
\* block that fits only alone, a block that goes through the cascade
SmallContents ==
    { << " " >>, << "a" >>, << "a", "a", "a", "a" >>,
      << "a", " ", "a", "a", "a", "a", "a", "a" >> }

TextBlockOf(content, page_num) == [content |-> content, page_num |-> page_num]

\* extraction yields the blocks page by page
PagesNonDecreasing(blocks) ==
    \A i \in 1..(Len(blocks) - 1) : blocks[i].page_num <= blocks[i + 1].page_num

SingleBlockRuns ==
    { << TextBlockOf(c, p) >> : c \in GeneratedContents, p \in {1, MaxPage} }

SeveralBlockRuns ==
    { blocks \in UNION { [1..n ->
                            { TextBlockOf(c, p) : c \in SmallContents,
                                                  p \in 1..MaxPage }]
                         : n \in 0..MaxBlocks } :
        PagesNonDecreasing(blocks) }

\* the sentence stage: one block of up to MaxSentences sentences of two or
\* three characters, separated by one or two spaces
MaxSentences == 4

Sentences == { << "a", "." >>, << "a", "a", "." >> }

RECURSIVE SentenceContents(_)
SentenceContents(k) ==
    IF k = 1 THEN Sentences
    ELSE { c \o g \o s :
             c \in SentenceContents(k - 1),
             g \in { << " " >>, << " ", " " >> },
             s \in Sentences }

SentenceRuns ==
    { << TextBlockOf(c, 1) >> :
        c \in UNION { SentenceContents(k) : k \in 1..MaxSentences } }

\* no chapter configuration, one of two chapters that leaves the later
\* pages to no chapter, and one whose ranges overlap and whose first chapter
\* comes back after the second
ChapterConfigs ==
    { << >>,
      << [name |-> "A", part |-> "I", start_page |-> 1, end_page |-> 1],
         [name |-> "B", part |-> "II", start_page |-> 2, end_page |-> 2] >>,
      << [name |-> "A", part |-> "I", start_page |-> 1, end_page |-> 2],
         [name |-> "B", part |-> "II", start_page |-> 2, end_page |-> 2],
         [name |-> "A", part |-> "III", start_page |-> 3, end_page |-> 3] >> }

\* the values of max_chunk_size of the model
ChunkSizes == {4, 5}

ChunkInit ==
    /\ \/ /\ text_blocks \in SingleBlockRuns
          /\ max_chunk_size \in ChunkSizes
          /\ chapters_config = << >>
       \/ /\ text_blocks \in SeveralBlockRuns
          /\ max_chunk_size = 4
          /\ chapters_config \in ChapterConfigs
       \/ /\ text_blocks \in SentenceRuns
          /\ max_chunk_size \in ChunkSizes
          /\ chapters_config = << >>
    /\ chunk_overlap = 0
    /\ split_by_paragraph \in BOOLEAN
    /\ split_by_sentence \in BOOLEAN
    /\ split_by_word \in BOOLEAN
    /\ cpc = "start"
    /\ chapter_map = << >>
    /\ block_groups = << >>
    /\ group_idx = 0
    /\ chunks = << >>
    /\ chunk_num = 0
    /\ metadata = NoMetadata
    /\ block_idx = 0
    /\ group_chunks = << >>
    /\ g_chunk_num = 0
    /\ current_chunk_content = << >>
    /\ current_chunk_page = 0
    /\ current_chapter_info = None

\* the chunker is not run
ChunkIdle ==
    /\ text_blocks = << >>
    /\ chapters_config = << >>
    /\ max_chunk_size = 4
    /\ chunk_overlap = 0
    /\ split_by_paragraph = TRUE
    /\ split_by_sentence = TRUE
    /\ split_by_word = TRUE
    /\ cpc = "idle"
    /\ chapter_map = << >>
    /\ block_groups = << >>
    /\ group_idx = 0
    /\ chunks = << >>
    /\ chunk_num = 0
    /\ metadata = NoMetadata
    /\ block_idx = 0
    /\ group_chunks = << >>
    /\ g_chunk_num = 0
    /\ current_chunk_content = << >>
    /\ current_chunk_page = 0
    /\ current_chapter_info = None

-----------------------------------------------------------------------------
(* The specifications *)

\* run_pipeline is not run
PipelineIdle ==
    /\ ppc = "idle"
    /\ phases_run = << >>
    /\ cleaned_blocks = << >>
    /\ exit_status = 0

\* TextChunker.run on every input of the model
ChunkerInit == ChunkInit /\ StructIdle /\ previous = None /\ PipelineIdle

SpecChunk == ChunkerInit /\ [][ChunkNext]_vars

\* StructurePhase.run on every input of the model
StructureInit == StructInit /\ ChunkIdle /\ previous = None /\ PipelineIdle

SpecStruct == StructureInit /\ [][StructNext]_vars

\* what a run returned: the chunks and their metadata, or the structured
\* blocks and their metadata, or the exception it ended with
RunResult ==
    [chunks            |-> chunks,
     metadata          |-> metadata,
     structured_blocks |-> structured_blocks,
     s_metadata        |-> s_metadata,
     exception         |-> exception]

\* TextChunker.run is called again on the same instance and the same input:
\* the attributes set by __init__ are all that the instance keeps
ChunkRerun ==
    /\ cpc = "done"
    /\ previous = None
    /\ previous' = Some(RunResult)
    /\ cpc' = "start"
    /\ UNCHANGED <<chunk_config, chunk_input, chapter_map, block_groups,
                   group_idx, chunks, chunk_num, metadata, chunk_group>>
    /\ UNCHANGED struct_vars
    /\ UNCHANGED pipe_vars

\* StructurePhase.run is called again on the same instance and the same
\* input, after it returned or raised
StructRerun ==
    /\ spc \in {"done", "raised"}
    /\ previous = None
    /\ previous' = Some(RunResult)
    /\ spc' = "start"
    /\ UNCHANGED <<struct_config, struct_input, block_types, block_levels,
                   method_used, structured_blocks, s_metadata, exception>>
    /\ UNCHANGED chunk_vars
    /\ UNCHANGED pipe_vars

RerunInit == ChunkerInit \/ StructureInit

RerunNext ==
    \/ ChunkNext
    \/ StructNext
    \/ ChunkRerun
    \/ StructRerun

\* either phase run twice on every input of the model
SpecRerun == RerunInit /\ [][RerunNext]_vars

\* the largest chunk_overlap of the model, above every max_chunk_size
MaxOverlap == 6

\* the values of chunk_overlap other than the default
Overlaps == {-1, 1, MaxOverlap}

\* a TextChunker with another chunk_overlap and the same configuration
\* otherwise is run on the same input
ChunkWithOverlap ==
    /\ cpc = "done"
    /\ previous = None
    /\ previous' = Some(RunResult)
    /\ chunk_overlap' \in Overlaps
    /\ cpc' = "start"
    /\ UNCHANGED <<max_chunk_size, split_by_paragraph, split_by_sentence,
                   split_by_word>>
    /\ UNCHANGED <<chunk_input, chapter_map, block_groups, group_idx, chunks,
                   chunk_num, metadata, chunk_group>>
    /\ UNCHANGED struct_vars
    /\ UNCHANGED pipe_vars

OverlapNext ==
    \/ ChunkNext
    \/ ChunkWithOverlap

\* TextChunker.run with chunk_overlap = 0, then with another chunk_overlap
SpecOverlap == ChunkerInit /\ [][OverlapNext]_vars

\* a StructurePhase with use_regex the other way and the same configuration
\* otherwise is run on the same input, after the first returned or raised
StructWithRegexToggled ==
    /\ spc \in {"done", "raised"}
    /\ previous = None
    /\ previous' = Some(RunResult)
    /\ use_regex' = ~use_regex
    /\ exception' = ""
    /\ spc' = "start"
    /\ UNCHANGED <<use_bookmarks, use_heuristics, font_size_threshold,
                   heading_isolation_threshold>>
    /\ UNCHANGED <<struct_input, block_types, block_levels, method_used,
                   structured_blocks, s_metadata>>
    /\ UNCHANGED chunk_vars
    /\ UNCHANGED pipe_vars

RegexToggleNext ==
    \/ StructNext
    \/ StructWithRegexToggled

\* StructurePhase.run with use_regex one way, then the other way
SpecRegexToggle == StructureInit /\ [][RegexToggleNext]_vars

-----------------------------------------------------------------------------
(* CleaningPhase with the default configuration, on structured blocks *)

\* the exclude pattern [Pp]age \d+: the length of its match at the head of
\* s, 0 when it does not match there
PageNumberMatch(s) ==
    IF /\ Len(s) >= 6
       /\ s[1] \in {"P", "p"}
       /\ SubSeq(s, 2, 5) = << "a", "g", "e", " " >>
       /\ s[6] \in Digit
    THEN 5 + Cardinality({ n \in 6..Len(s) : \A k \in 6..n : s[k] \in Digit })
    ELSE 0

\* pattern.sub("", text) for [Pp]age \d+: every match removed, left to right
RECURSIVE RemovePageNumbers(_)
RemovePageNumbers(s) ==
    IF s = << >> THEN << >>
    ELSE IF PageNumberMatch(s) > 0
         THEN RemovePageNumbers(SubSeq(s, PageNumberMatch(s) + 1, Len(s)))
         ELSE << Head(s) >> \o RemovePageNumbers(Tail(s))

\* _apply_regex_filtering: [Pp]age \d+ is removed wherever it stands; ^\s*$
\* and ^\s*-{3,}\s*$ match the whole text or nothing
_apply_regex_filtering(text) ==
    LET unnumbered == RemovePageNumbers(text)
        unblanked == IF Strip(unnumbered) = << >> THEN << >> ELSE unnumbered
        rule == Strip(unblanked)
    IN IF Len(rule) >= 3 /\ \A i \in 1..Len(rule) : rule[i] = "-"
       THEN << >>
       ELSE unblanked

\* re.sub(r"\n\s*\n+", "\n\n", text): from a newline to the last newline of
\* the whitespace that follows it
RECURSIVE CollapseBlankLines(_)
CollapseBlankLines(s) ==
    IF s = << >> THEN << >>
    ELSE LET rest == Tail(s)
             run == Cardinality({ n \in 1..Len(rest) :
                                    \A k \in 1..n : rest[k] \in Whitespace })
             newlines == { k \in 1..run : rest[k] = "\n" }
             last == CHOOSE k \in newlines : \A j \in newlines : j <= k
         IN IF Head(s) = "\n" /\ newlines # {}
            THEN << "\n", "\n" >>
                     \o CollapseBlankLines(SubSeq(rest, last + 1, Len(rest)))
            ELSE << Head(s) >> \o CollapseBlankLines(rest)

\* re.sub(r" +", " ", text)
RECURSIVE CollapseSpaces(_)
CollapseSpaces(s) ==
    IF s = << >> THEN << >>
    ELSE IF Len(s) >= 2 /\ s[1] = " " /\ s[2] = " "
         THEN CollapseSpaces(Tail(s))
         ELSE << Head(s) >> \o CollapseSpaces(Tail(s))

_clean_whitespace(text) == Strip(CollapseSpaces(CollapseBlankLines(text)))

\* CleaningPhase.run: no page and no section is excluded by default, a
\* structured block has no bbox to crop by; a block whose text is blank
\* after a step is dropped, the others carry their cleaned text
RECURSIVE CleaningRun(_)
CleaningRun(blocks) ==
    IF blocks = << >> THEN << >>
    ELSE LET block == Head(blocks)
             filtered == _apply_regex_filtering(block.content)
             cleaned == _clean_whitespace(filtered)
         IN IF \/ Strip(block.content) = << >>
               \/ Strip(filtered) = << >>
               \/ Strip(cleaned) = << >>
            THEN CleaningRun(Tail(blocks))
            ELSE << [block EXCEPT !.content = cleaned] >>
                     \o CleaningRun(Tail(blocks))

-----------------------------------------------------------------------------
(* run_pipeline, with the extraction phase returning a block list *)

\* a page number, a rule, and a text with blank lines and double spaces
TextPageNumber == << "P", "a", "g", "e", " ", "3" >>
TextRule == << "-", "-", "-" >>
TextSpaced == << "B", " ", " ", "o", "\n", " ", "\n", "d", "y" >>

PipelineBlocks ==
    { TextBlock(content, 1, LayoutFull, font, FALSE) :
        content \in {TextBody, TextPageNumber, TextRule, TextSpaced},
        font \in {None, Some(12)} }

\* what the extraction phase may return: blocks and bookmarks
PipelineInputs ==
    { StructInput(blocks, marks, Flags(TRUE, TRUE, TRUE), 70) :
        blocks \in SeqsUpTo(PipelineBlocks, MaxStructBlocks),
        marks \in {<< >>, << Bookmark(1, 1) >>} }
    \cup { in \in TestInputs : in.flags = Flags(TRUE, TRUE, TRUE) }

\* the phases in the order run_pipeline calls them
PhaseOrder ==
    << "extraction", "structure", "cleaning", "chunking", "file_organization" >>

\* the attributes the pipeline may use on a ChunkingPhase
ChunkingPhaseAttributes == {"config", "chunker", "run", "save_chunking_report"}

\* run_pipeline up to its try block: the configuration is loaded
PipelineInit ==
    /\ use_bookmarks \in BOOLEAN
    /\ use_heuristics \in BOOLEAN
    /\ use_regex \in BOOLEAN
    /\ heading_isolation_threshold = 70
    /\ font_size_threshold = DefaultFontSizeThreshold
    /\ s_text_blocks = << >>
    /\ bookmarks = << >>
    /\ spc = "idle"
    /\ block_types = << >>
    /\ block_levels = << >>
    /\ method_used = << >>
    /\ structured_blocks = << >>
    /\ s_metadata = None
    /\ exception = ""
    /\ ChunkIdle
    /\ previous = None
    /\ ppc = "start"
    /\ phases_run = << >>
    /\ cleaned_blocks = << >>
    /\ exit_status = 0

\* lines 130-158: the extraction phase returns its blocks and bookmarks, and
\* StructurePhase.run is called on them
PipelineExtraction ==
    /\ ppc = "start"
    /\ \E in \in PipelineInputs :
          /\ s_text_blocks' = in.blocks
          /\ bookmarks' = in.bookmarks
    /\ phases_run' = << "extraction", "structure" >>
    /\ spc' = "start"
    /\ ppc' = "structure"
    /\ UNCHANGED <<struct_config, block_types, block_levels, method_used,
                   structured_blocks, s_metadata, exception>>
    /\ UNCHANGED <<cleaned_blocks, exit_status>>
    /\ UNCHANGED chunk_vars
    /\ UNCHANGED previous

\* lines 281-283: StructurePhase.run raised; the pipeline logs and exits
PipelineStructureRaised ==
    /\ ppc = "structure"
    /\ spc = "raised"
    /\ exit_status' = 1
    /\ ppc' = "exited"
    /\ UNCHANGED <<phases_run, cleaned_blocks>>
    /\ UNCHANGED chunk_vars
    /\ UNCHANGED struct_vars
    /\ UNCHANGED previous

\* lines 160-193: StructurePhase.run returned; CleaningPhase.run on the
\* structured blocks
PipelineCleaning ==
    /\ ppc = "structure"
    /\ spc = "done"
    /\ cleaned_blocks' = CleaningRun(structured_blocks)
    /\ phases_run' = Append(phases_run, "cleaning")
    /\ ppc' = "cleaning"
    /\ UNCHANGED exit_status
    /\ UNCHANGED chunk_vars
    /\ UNCHANGED struct_vars
    /\ UNCHANGED previous

\* lines 201-213: the cleaned blocks are turned into dicts and
\* ChunkingPhase.run is called on them. TextChunker reads block.page_num
\* (chunking.py, line 183), which a dict does not have: AttributeError
\* unless the list is empty; on the empty list it returns no chunk
PipelineChunking ==
    /\ ppc = "cleaning"
    /\ phases_run' = Append(phases_run, "chunking")
    /\ IF cleaned_blocks # << >>
       THEN /\ exit_status' = 1
            /\ ppc' = "exited"
            /\ UNCHANGED chunk_vars
       ELSE /\ text_blocks' = << >>
            /\ chunks' = << >>
            /\ metadata' = Some(ChunkingMetadata(chunks'))
            /\ cpc' = "done"
            /\ ppc' = "chunking"
            /\ UNCHANGED exit_status
            /\ UNCHANGED <<chunk_config, chapters_config, chapter_map,
                           block_groups, group_idx, chunk_num, chunk_group>>
    /\ UNCHANGED cleaned_blocks
    /\ UNCHANGED struct_vars
    /\ UNCHANGED previous

\* lines 215-224 and 236-264: the chunking report is saved, then
\* chunking_phase.save_chunks is called and FileOrganizationPhase.run after
\* it; an attribute the ChunkingPhase does not have raises AttributeError
PipelineSaveChunks ==
    /\ ppc = "chunking"
    /\ cpc = "done"
    /\ IF "save_chunks" \in ChunkingPhaseAttributes
       THEN /\ phases_run' = Append(phases_run, "file_organization")
            /\ ppc' = "file_organization"
            /\ UNCHANGED exit_status
       ELSE /\ exit_status' = 1
            /\ ppc' = "exited"
            /\ UNCHANGED phases_run
    /\ UNCHANGED cleaned_blocks
    /\ UNCHANGED chunk_vars
    /\ UNCHANGED struct_vars
    /\ UNCHANGED previous

PipelineNext ==
    \/ PipelineExtraction
    \/ StructNext
    \/ PipelineStructureRaised
    \/ PipelineCleaning
    \/ PipelineChunking
    \/ PipelineSaveChunks

\* run_pipeline on every output of the extraction phase of the model
SpecPipeline == PipelineInit /\ [][PipelineNext]_vars


-----------------------------------------------------------------------------
(* Claims about TextChunker *)

\* every chunk emitted so far: those of the finished groups, then those of
\* the group being processed
Emitted == IF cpc = "blocks" THEN chunks \o group_chunks ELSE chunks

HasWhitespace(s) == \E i \in 1..Len(s) : s[i] \in Whitespace

\* one whitespace-free word longer than max_chunk_size
IsOversizedWord(s) == Len(s) > max_chunk_size /\ ~HasWhitespace(s)

\* the units the sentence stage of the cascade works on, for the enabled
\* stages: the sentences of the paragraphs of a block content
SentenceUnits(text) ==
    LET paragraphs == IF split_by_paragraph
                      THEN StripNonEmpty(SplitBlankLines(Strip(text), << >>))
                      ELSE StripNonEmpty(<< text >>)
        Of(paragraph) == IF split_by_sentence
                         THEN _split_by_sentences(paragraph)
                         ELSE << paragraph >>
    IN UNION { { Of(paragraphs[i])[j] : j \in 1..Len(Of(paragraphs[i])) }
               : i \in 1..Len(paragraphs) }

\* C1 as stated: every chunk has char_count <= max_chunk_size, except a chunk
\* that is exactly one whitespace-free word longer than max_chunk_size, for
\* every combination of the split flags.
C1_SizeBoundAllFlags ==
    \A i \in 1..Len(Emitted) :
        \/ Emitted[i].char_count <= max_chunk_size
        \/ IsOversizedWord(Emitted[i].content)

\* C1 as amended: every chunk has char_count <= max_chunk_size, except a
\* chunk that is exactly one whitespace-free word longer than max_chunk_size
\* and, only when split_by_word is disabled, a chunk that is exactly one
\* sentence-stage unit of a block (a sentence; a paragraph when
\* split_by_sentence is disabled too; the block when split_by_paragraph is
\* disabled as well) longer than max_chunk_size.
C1_SizeBound ==
    \A i \in 1..Len(Emitted) :
        /\ Emitted[i].char_count = Len(Emitted[i].content)
        /\ \/ Emitted[i].char_count <= max_chunk_size
           \/ IsOversizedWord(Emitted[i].content)
           \/ /\ ~split_by_word
              /\ \E b \in 1..Len(text_blocks) :
                    Emitted[i].content \in SentenceUnits(text_blocks[b].content)

\* a finished run with word splitting in which the cascade emitted both an
\* oversized word and a piece of several words within the bound
C1_Witness ==
    /\ cpc = "done"
    /\ split_by_word
    /\ \E i \in 1..Len(chunks) : IsOversizedWord(chunks[i].content)
    /\ \E i \in 1..Len(chunks) :
          /\ HasWhitespace(chunks[i].content)
          /\ chunks[i].char_count <= max_chunk_size

\* C2: the chunk_num values are strictly increasing in emission order over
\* the whole run, across groups and across the pieces of a split block (so no
\* two chunks share an id); they count up from 1.
C2_ChunkNumIncreasing ==
    /\ \A i \in 1..(Len(Emitted) - 1) :
          Emitted[i].chunk_num < Emitted[i + 1].chunk_num
    /\ \A i \in 1..Len(Emitted) : Emitted[i].chunk_num = i

\* a finished run of two chapter groups, the first of which emitted several
\* chunks, one of them a piece of a split block
C2_Witness ==
    /\ cpc = "done"
    /\ Len(block_groups) >= 2
    /\ \E i, j \in 1..Len(chunks) :
          /\ i + 1 < j
          /\ chunks[i].source_chapter # chunks[j].source_chapter
          /\ chunks[i].source_chapter = chunks[i + 1].source_chapter
          /\ chunks[i].char_count > max_chunk_size

\* C3: with non-decreasing input pages, within each chapter group the
\* source_page of the chunks is non-decreasing in chunk_num order.
C3_PagesNonDecreasing ==
    (cpc \in {"blocks", "groups", "done"} /\ PagesNonDecreasing(text_blocks)) =>
        \A i \in 1..(Len(group_chunks) - 1) :
            group_chunks[i].source_page <= group_chunks[i + 1].source_page

-----------------------------------------------------------------------------
(* Claims about StructurePhase *)

\* run has returned its structured blocks and metadata
Returned == spc = "done"

HeadingTypes ==
    {"PART_HEADING", "CHAPTER_HEADING", "SECTION_HEADING", "SUBSECTION_HEADING"}

\* C4: run returns exactly one structured block per input block, in input
\* order; each carries the content, page number, bounding box and font
\* attributes of the input block at the same index, and metadata.total_blocks
\* is the number of input blocks, for every combination of the method flags.
C4_BlocksAligned ==
    Returned =>
        /\ Len(structured_blocks) = Len(s_text_blocks)
        /\ s_metadata # None
        /\ s_metadata[1].total_blocks = Len(s_text_blocks)
        /\ \A i \in 1..Len(s_text_blocks) :
              LET in  == s_text_blocks[i]
                  out == structured_blocks[i]
              IN /\ out.content = in.content
                 /\ out.page_num = in.page_num
                 /\ << out.x0, out.y0, out.x1, out.y1 >>
                        = << in.x0, in.y0, in.x1, in.y1 >>
                 /\ out.font_name = in.font_name
                 /\ out.font_size = in.font_size
                 /\ out.font_weight = in.font_weight
                 /\ out.is_bold = in.is_bold
                 /\ out.is_italic = in.is_italic

\* a returned run of several passes over two different blocks with font
\* attributes, which got different types
C4_Witness ==
    /\ Returned
    /\ Len(method_used) >= 2
    /\ Len(structured_blocks) = 2
    /\ structured_blocks[1].content # structured_blocks[2].content
    /\ structured_blocks[1].block_type # structured_blocks[2].block_type
    /\ structured_blocks[1].font_size # None
    /\ structured_blocks[1].font_size # structured_blocks[2].font_size

\* the type the claim gives a bookmark level
C5_TypeOfLevel(level) ==
    CASE level = 0 -> "PART_HEADING"
      [] level = 1 -> "CHAPTER_HEADING"
      [] level = 2 -> "SECTION_HEADING"
      [] level >= 3 -> "SUBSECTION_HEADING"

\* the bookmark pass has run
AfterBookmarks == spc \in {"heuristics", "regex", "default", "done", "raised"}

\* the classification of block i is the one derived from bookmark k, in the
\* passes' arrays and, once run has returned, in the structured block
C5_FromBookmark(i, k) ==
    /\ block_types[i] = C5_TypeOfLevel(bookmarks[k].level)
    /\ block_levels[i] = bookmarks[k].level
    /\ Returned =>
          /\ structured_blocks[i].block_type = C5_TypeOfLevel(bookmarks[k].level)
          /\ structured_blocks[i].hierarchy_level = bookmarks[k].level

\* C5 as stated: with use_bookmarks enabled, every block on the page of a
\* bookmark has the type and the level derived from that bookmark, from the
\* bookmark pass on and whatever use_heuristics and use_regex are.
C5_EveryBookmarkOfPage ==
    (AfterBookmarks /\ use_bookmarks) =>
        \A i \in 1..Len(s_text_blocks) : \A k \in 1..Len(bookmarks) :
            bookmarks[k].page = s_text_blocks[i].page_num => C5_FromBookmark(i, k)

\* C5 as amended: with use_bookmarks enabled, every block on a bookmarked
\* page has the type and the level derived from the last bookmark of the list
\* that names its page (level 0 -> PART_HEADING, 1 -> CHAPTER_HEADING,
\* 2 -> SECTION_HEADING, >= 3 -> SUBSECTION_HEADING; the level is the
\* bookmark's), from the bookmark pass on: no later pass changes it, whatever
\* use_heuristics and use_regex are.
C5_LastBookmarkOfPage ==
    (AfterBookmarks /\ use_bookmarks) =>
        \A i \in 1..Len(s_text_blocks) : \A k \in 1..Len(bookmarks) :
            ( /\ bookmarks[k].page = s_text_blocks[i].page_num
              /\ \A j \in (k + 1)..Len(bookmarks) :
                    bookmarks[j].page # bookmarks[k].page )
            => C5_FromBookmark(i, k)

\* a returned run with the three passes enabled, two bookmarks of different
\* levels on one page, and on that page a block with a section-like text that
\* kept the type of the last bookmark
C5_Witness ==
    /\ Returned
    /\ use_bookmarks /\ use_heuristics /\ use_regex
    /\ \E i \in 1..Len(s_text_blocks) : \E j, k \in 1..Len(bookmarks) :
          /\ j < k
          /\ bookmarks[j].page = s_text_blocks[i].page_num
          /\ bookmarks[k].page = s_text_blocks[i].page_num
          /\ bookmarks[j].level # bookmarks[k].level
          /\ s_text_blocks[i].content = TextSection
          /\ structured_blocks[i].block_type = C5_TypeOfLevel(bookmarks[k].level)
          /\ structured_blocks[i].block_type # "SECTION_HEADING"

\* the level the claim fixes for a type
C6_LevelOfType(type) ==
    CASE type = "PART_HEADING"       -> 0
      [] type = "CHAPTER_HEADING"    -> 1
      [] type = "SECTION_HEADING"    -> 2
      [] type = "SUBSECTION_HEADING" -> 3
      [] OTHER                       -> 0

\* C6: for every returned block, hierarchy_level is determined by block_type
\* alone (PART_HEADING 0, CHAPTER_HEADING 1, SECTION_HEADING 2,
\* SUBSECTION_HEADING 3, BODY_TEXT, HEADER and FOOTER 0), so it is in 0..3,
\* for every bookmark list and every flag combination.
C6_LevelFixedByType ==
    Returned =>
        \A i \in 1..Len(structured_blocks) :
            /\ structured_blocks[i].hierarchy_level
                   = C6_LevelOfType(structured_blocks[i].block_type)
            /\ structured_blocks[i].hierarchy_level \in 0..3

\* block i lies on a page the bookmark pass classifies
C7_Bookmarked(i) ==
    /\ use_bookmarks
    /\ \E k \in 1..Len(bookmarks) : bookmarks[k].page = s_text_blocks[i].page_num

\* C7: no returned block has block_type UNKNOWN, for every flag combination
\* and bookmark list; with heuristics and regex disabled, a block that the
\* bookmark pass did not classify (every block when bookmarks are disabled
\* too, a block of a non-bookmarked page otherwise) is BODY_TEXT, level 0.
C7_NoUnknown ==
    Returned =>
        \A i \in 1..Len(structured_blocks) :
            /\ structured_blocks[i].block_type # "UNKNOWN"
            /\ (~use_heuristics /\ ~use_regex /\ ~C7_Bookmarked(i)) =>
                  /\ structured_blocks[i].block_type = "BODY_TEXT"
                  /\ structured_blocks[i].hierarchy_level = 0

\* a returned run with only bookmarks enabled, one block on a bookmarked page
\* and one on a page without a bookmark that became BODY_TEXT
C7_Witness ==
    /\ Returned
    /\ use_bookmarks /\ ~use_heuristics /\ ~use_regex
    /\ \E i, j \in 1..Len(structured_blocks) :
          /\ C7_Bookmarked(i)
          /\ ~C7_Bookmarked(j)
          /\ structured_blocks[j].block_type = "BODY_TEXT"

\* the characters i..j of s are digits, and at least one
C8_Digits(s, i, j) == i <= j /\ \A k \in i..j : s[k] \in Digit

\* a text of the form 'N.N title': digits, a dot, digits, whitespace
C8_IsSectionNumbered(s) ==
    \E i, j \in 1..Len(s) :
        /\ j + 1 <= Len(s)
        /\ C8_Digits(s, 1, i - 1)
        /\ s[i] = "."
        /\ C8_Digits(s, i + 1, j)
        /\ s[j + 1] \in Whitespace

\* a text of the form 'N.N.N title'
C8_IsSubsectionNumbered(s) ==
    \E i, j, k \in 1..Len(s) :
        /\ k + 1 <= Len(s)
        /\ C8_Digits(s, 1, i - 1)
        /\ s[i] = "."
        /\ C8_Digits(s, i + 1, j - 1)
        /\ s[j] = "."
        /\ C8_Digits(s, j + 1, k)
        /\ s[k + 1] \in Whitespace

\* the type of the first group, in the order part, chapter, section,
\* subsection, with a pattern that matches the text
C8_FirstGroup(text) ==
    IF AnyMatch(PartPatterns, text) THEN "PART_HEADING"
    ELSE IF AnyMatch(ChapterPatterns, text) THEN "CHAPTER_HEADING"
    ELSE IF AnyMatch(SectionPatterns, text) THEN "SECTION_HEADING"
    ELSE IF AnyMatch(SubsectionPatterns, text) THEN "SUBSECTION_HEADING"
    ELSE "BODY_TEXT"

\* C8: with use_regex enabled and bookmarks and heuristics disabled, each
\* returned block has the type of the first pattern group (part, chapter,
\* section, subsection) that matches its trimmed text, with the level of that
\* type, and is BODY_TEXT level 0 if none matches; a text 'N.N title' is
\* SECTION_HEADING and a text 'N.N.N title' is SUBSECTION_HEADING.
C8_RegexFirstGroup ==
    (Returned /\ use_regex /\ ~use_bookmarks /\ ~use_heuristics) =>
        \A i \in 1..Len(structured_blocks) :
            LET text == Strip(s_text_blocks[i].content)
                out  == structured_blocks[i]
            IN /\ out.block_type = C8_FirstGroup(text)
               /\ out.hierarchy_level = C6_LevelOfType(out.block_type)
               /\ C8_IsSectionNumbered(text) =>
                      out.block_type = "SECTION_HEADING"
               /\ C8_IsSubsectionNumbered(text) =>
                      out.block_type = "SUBSECTION_HEADING"

\* a returned regex-only run on a text 'N.N.N title' written after a blank,
\* which became a SUBSECTION_HEADING of level 3
C8_Witness ==
    /\ Returned
    /\ use_regex /\ ~use_bookmarks /\ ~use_heuristics
    /\ \E i \in 1..Len(structured_blocks) :
          /\ structured_blocks[i].content # Strip(structured_blocks[i].content)
          /\ C8_IsSubsectionNumbered(Strip(structured_blocks[i].content))
          /\ structured_blocks[i].block_type = "SUBSECTION_HEADING"
          /\ structured_blocks[i].hierarchy_level = 3

\* C9: with bookmarks, heuristics and regex all enabled, a block on a page
\* without a bookmark whose text matches a section-level pattern (such as
\* '1.1 Background') is returned as SECTION_HEADING and is counted in
\* metadata.sections_found, which is then at least 1.
C9_SectionFoundByRegex ==
    (Returned /\ use_bookmarks /\ use_heuristics /\ use_regex) =>
        \A i \in 1..Len(s_text_blocks) :
            ( /\ ~C7_Bookmarked(i)
              /\ AnyMatch(SectionPatterns, Strip(s_text_blocks[i].content)) )
            => /\ structured_blocks[i].block_type = "SECTION_HEADING"
               /\ s_metadata[1].sections_found >= 1

\* the four signals of block i, counted
C10_Score(i) ==
    LET block == s_text_blocks[i]
        page_widths == CollectPageWidths(s_text_blocks)
    IN CountTrue(<< block.font_size # None
                        /\ block.font_size[1] >= font_size_threshold,
                    block.is_bold,
                    _is_isolated(block, s_text_blocks, i),
                    _is_centered(block, page_widths) >>)

\* the heuristic pass has classified every block, none by bookmarks
C10_HeuristicsDecided ==
    /\ spc \in {"regex", "default", "done"}
    /\ use_heuristics
    /\ ~use_bookmarks \/ bookmarks = << >>

\* C10: in the heuristic pass, a block that is not a short text of the
\* header/footer zone is a heading if and only if its number of true signals
\* (font size >= font_size_threshold, bold, isolated, centered) divided by 4
\* is at least heading_isolation_threshold, and is BODY_TEXT level 0
\* otherwise; with the threshold 0.7 that is at least 3 of the 4 signals.
C10_HeadingIffScore ==
    C10_HeuristicsDecided =>
        \A i \in 1..Len(s_text_blocks) :
            ~_is_header_or_footer(s_text_blocks[i]) =>
                /\ block_types[i] \in HeadingTypes
                       <=> 25 * C10_Score(i) >= heading_isolation_threshold
                /\ block_types[i] \notin HeadingTypes =>
                       block_types[i] = "BODY_TEXT" /\ block_levels[i] = 0
                /\ heading_isolation_threshold = 70 =>
                       (block_types[i] \in HeadingTypes <=> C10_Score(i) >= 3)

\* a returned heuristics-only run with the threshold 0.7 in which a block of
\* three signals became a heading and a block of
\* no signal stayed BODY_TEXT
C10_Witness ==
    /\ Returned
    /\ C10_HeuristicsDecided
    /\ heading_isolation_threshold = 70
    /\ \E i, j \in 1..Len(s_text_blocks) :
          /\ ~_is_header_or_footer(s_text_blocks[i])
          /\ ~_is_header_or_footer(s_text_blocks[j])
          /\ C10_Score(i) = 3
          /\ structured_blocks[i].block_type \in HeadingTypes
          /\ C10_Score(j) = 0
          /\ structured_blocks[j].block_type = "BODY_TEXT"

\* block i lies in the top tenth, or in the bottom tenth, of the nominal page
\* of 800 points
C11_InTop(i) == 10 * s_text_blocks[i].y0 < 800
C11_InBottom(i) == 10 * s_text_blocks[i].y0 > 7200
C11_Short(i) == Len(s_text_blocks[i].content) < 100

\* C11: in the heuristic pass a block whose y0 lies in the top or the bottom
\* tenth of the 800-point page and whose text is shorter than 100 characters
\* is HEADER (top) or FOOTER (bottom) with level 0, whatever its heading
\* signals are; a block in the middle of the page, or of 100 or more
\* characters, is never HEADER or FOOTER.
C11_HeaderFooterZone ==
    C10_HeuristicsDecided =>
        \A i \in 1..Len(s_text_blocks) :
            /\ (C11_InTop(i) /\ C11_Short(i)) =>
                  block_types[i] = "HEADER" /\ block_levels[i] = 0
            /\ (C11_InBottom(i) /\ C11_Short(i)) =>
                  block_types[i] = "FOOTER" /\ block_levels[i] = 0
            /\ (~C11_Short(i) \/ (~C11_InTop(i) /\ ~C11_InBottom(i))) =>
                  block_types[i] \notin {"HEADER", "FOOTER"}

\* a returned run with the threshold 0.7 in which a block of the top zone
\* with all four heading signals became a HEADER, and a run's block on the
\* limit of the zone became a heading
C11_Witness ==
    /\ Returned
    /\ C10_HeuristicsDecided
    /\ heading_isolation_threshold = 70
    /\ \E i \in 1..Len(s_text_blocks) :
          /\ C11_InTop(i) /\ C11_Short(i)
          /\ C10_Score(i) = 4
          /\ structured_blocks[i].block_type = "HEADER"
    /\ \E j \in 1..Len(s_text_blocks) :
          /\ s_text_blocks[j].y0 \in {80, 720}
          /\ structured_blocks[j].block_type \in HeadingTypes

\* a second run on the same input has ended
C12_SecondRunEnded ==
    /\ previous # None
    /\ cpc = "done" \/ spc \in {"done", "raised"}

C13_NeverRaises == spc # "raised" /\ exception = ""

\* the metadata of a run that produced no chunk: every size 0, the average
\* the quotient 0 / 1
C14_ZeroMetadata ==
    [total_chunks     |-> 0,
     total_characters |-> 0,
     avg_chunk_size   |-> [num |-> 0, den |-> 1],
     min_chunk_size   |-> 0,
     max_chunk_size   |-> 0]

\* StructurePhase.run on an empty block list does not raise, and returns no
\* structured block and an empty hierarchy
C14_StructureOfNothing ==
    (spc # "idle" /\ s_text_blocks = << >>) =>
        /\ spc # "raised"
        /\ exception = ""
        /\ Returned =>
              /\ structured_blocks = << >>
              /\ s_metadata # None
              /\ s_metadata[1].hierarchy = << >>
              /\ s_metadata[1].total_blocks = 0

\* TextChunker.run on an empty block list returns no chunk and zero metadata
C14_ChunksOfNothing ==
    (cpc = "done" /\ text_blocks = << >>) =>
        /\ chunks = << >>
        /\ metadata = Some(C14_ZeroMetadata)

\* C14: an empty block list is not an error: StructurePhase.run returns zero
\* structured blocks and an empty hierarchy, and TextChunker.run returns zero
\* chunks with total_chunks, total_characters, avg_chunk_size, min_chunk_size
\* and max_chunk_size all 0, with or without a chapter configuration.
C14_EmptyInput == C14_StructureOfNothing /\ C14_ChunksOfNothing

\* TextChunker.run has returned from its second run on an empty block list
\* with a chapter configuration
C14_Witness ==
    /\ cpc = "done"
    /\ previous # None
    /\ text_blocks = << >>
    /\ chapters_config # << >>
    /\ block_groups = << >>
    /\ metadata # None
    /\ metadata[1].total_chunks = 0

\* StructurePhase.run has returned from a run of every pass on an empty
\* block list with bookmarks
C14_WitnessStructure ==
    /\ Returned
    /\ s_text_blocks = << >>
    /\ bookmarks # << >>
    /\ use_bookmarks /\ use_heuristics /\ use_regex
    /\ s_metadata # None
    /\ s_metadata[1].hierarchy = << >>

\* the sum of the lengths of the contents of the first n chunks
RECURSIVE C15_ContentLength(_)
C15_ContentLength(n) ==
    IF n = 0 THEN 0 ELSE Len(chunks[n].content) + C15_ContentLength(n - 1)

C15_Sizes == { chunks[i].char_count : i \in 1..Len(chunks) }

\* C15: the metadata returned by TextChunker.run satisfies: total_chunks is
\* the number of returned chunks; total_characters is the sum of the chunks'
\* char_count, each the length of the chunk's content; min_chunk_size and
\* max_chunk_size are the smallest and largest char_count; avg_chunk_size is
\* total_characters / total_chunks, with min <= avg <= max; all of them are 0
\* when no chunk was produced.
C15_MetadataOfChunks ==
    cpc = "done" =>
        /\ metadata # None
        /\ LET md == metadata[1] IN
           /\ md.total_chunks = Len(chunks)
           /\ \A i \in 1..Len(chunks) :
                 chunks[i].char_count = Len(chunks[i].content)
           /\ md.total_characters = C15_ContentLength(Len(chunks))
           /\ chunks # << >> =>
                 /\ md.min_chunk_size \in C15_Sizes
                 /\ md.max_chunk_size \in C15_Sizes
                 /\ \A size \in C15_Sizes :
                       md.min_chunk_size <= size /\ size <= md.max_chunk_size
                 /\ md.avg_chunk_size.den > 0
                 /\ md.avg_chunk_size.num * md.total_chunks =
                       md.total_characters * md.avg_chunk_size.den
                 /\ md.min_chunk_size * md.avg_chunk_size.den
                       <= md.avg_chunk_size.num
                 /\ md.avg_chunk_size.num
                       <= md.max_chunk_size * md.avg_chunk_size.den
           /\ chunks = << >> =>
                 /\ md.total_characters = 0
                 /\ md.min_chunk_size = 0
                 /\ md.max_chunk_size = 0
                 /\ md.avg_chunk_size.num = 0

\* a run has returned three or more chunks whose first is not the smallest,
\* with an average that is not a whole number
C15_Witness ==
    /\ cpc = "done"
    /\ Len(chunks) >= 3
    /\ metadata # None
    /\ metadata[1].min_chunk_size < chunks[1].char_count
    /\ chunks[1].char_count < metadata[1].max_chunk_size
    /\ metadata[1].avg_chunk_size.num % metadata[1].avg_chunk_size.den # 0

C16_SplitMethods == {"whole-block", "paragraph", "sentence", "word", "oversized"}

\* C16: every emitted chunk records the split method that produced it
\* (whole-block, paragraph, sentence, word or oversized), and the chunking
\* metadata carries a histogram of the chunks per split method whose counts
\* sum to total_chunks; a chunk made of a single word longer than
\* max_chunk_size is the only kind tagged oversized.
C16_SplitMethodRecorded ==
    cpc = "done" =>
        /\ \A i \in 1..Len(chunks) :
              /\ "split_method" \in DOMAIN chunks[i]
              /\ chunks[i].split_method \in C16_SplitMethods
              /\ chunks[i].split_method = "oversized"
                    <=> IsOversizedWord(chunks[i].content)
        /\ metadata # None
        /\ "chunks_by_split_method" \in DOMAIN metadata[1]
        /\ \A method \in C16_SplitMethods :
              metadata[1].chunks_by_split_method[method] =
                  Cardinality({ i \in 1..Len(chunks) :
                                  chunks[i].split_method = method })

\* C17: run_pipeline, given an extraction phase that returns a block list
\* (empty or not), runs the phases in the order extraction, structure
\* analysis, cleaning, chunking, file organization, each consuming the
\* previous phase's output, and completes without error: it does not exit
\* with status 1, and when it has ended it has reached the file organization
\* phase.
C17_PipelineCompletes ==
    /\ phases_run = SubSeq(PhaseOrder, 1, Len(phases_run))
    /\ ppc \in {"cleaning", "chunking", "file_organization"} =>
          Len(cleaned_blocks) <= Len(structured_blocks)
    /\ exit_status # 1
    /\ ppc # "exited"

\* TextChunker.run has returned under a chunk_overlap other than 0, after
\* its run under chunk_overlap = 0
C18_OverlapRunEnded == cpc = "done" /\ previous # None /\ chunk_overlap # 0

\* C18: the chunks and the metadata returned by TextChunker.run do not
\* depend on chunk_overlap: for every block sequence and every other
\* configuration, a run with any chunk_overlap gives the chunk contents, ids
\* and provenance of the run with chunk_overlap = 0.
C18_OverlapIgnored ==
    C18_OverlapRunEnded =>
        /\ chunks = previous[1].chunks
        /\ metadata = previous[1].metadata

\* a run under a positive chunk_overlap has returned a chunk flushed from
\* the accumulator and, after it, the chunk begun by the block that did not
\* fit
C18_Witness ==
    /\ C18_OverlapRunEnded
    /\ chunk_overlap > 0
    /\ Len(text_blocks) >= 2
    /\ \E i \in 1..(Len(chunks) - 1) :
          /\ chunks[i].content = Strip(text_blocks[1].content)
          /\ chunks[i + 1].content = Strip(text_blocks[2].content)

\* the contents of the non-blank blocks j..k of a group, trimmed and joined
\* by blank lines: what merging them into an empty accumulator gives
RECURSIVE C19_Merged(_, _, _)
C19_Merged(blocks, j, k) ==
    IF j > k THEN << >>
    ELSE LET rest == C19_Merged(blocks, j + 1, k)
             head == Strip(blocks[j].content)
         IN IF head = << >> THEN rest
            ELSE IF rest = << >> THEN head
            ELSE head \o << "\n", "\n" >> \o rest

\* the non-blank blocks of the group being processed from which the
\* accumulator was merged: the accumulator is what merging that block and
\* the blocks after it, up to the last one processed, gives
C19_FirstMerged ==
    { j \in 1..(block_idx - 1) :
        /\ Strip(block_groups[group_idx][j].content) # << >>
        /\ C19_Merged(block_groups[group_idx], j, block_idx - 1)
              = current_chunk_content }

\* C19: every chunk flushed from the accumulator has source_page equal to the
\* page number of the first non-blank block whose content was merged into
\* that accumulator, also for an accumulator that starts after a
\* cascade-split block reset it to empty, and for a group whose first block
\* is whitespace-only.
C19_FlushedPageOfFirstMerged ==
    [][(/\ cpc = "blocks"
        /\ current_chunk_content # << >>
        /\ Len(group_chunks') > Len(group_chunks))
          => /\ group_chunks'[Len(group_chunks) + 1].content
                   = current_chunk_content
             /\ C19_FirstMerged # {}
             /\ \A j \in C19_FirstMerged :
                   group_chunks'[Len(group_chunks) + 1].source_page
                       = block_groups[group_idx][j].page_num]_vars

\* the last index of a set of block indices, 0 for the empty set
C20_Last(indices) ==
    IF indices = {} THEN 0
    ELSE CHOOSE m \in indices : \A j \in indices : j <= m

C20_OfType(type, from, to) ==
    { j \in from..to : structured_blocks[j].block_type = type }

\* the heading that encloses block i: the last section heading after the
\* last chapter and part heading before i, else the last chapter heading
\* after the last part heading, else the last part heading, else 0
C20_Enclosing(i) ==
    LET part == C20_Last(C20_OfType("PART_HEADING", 1, i - 1))
        chapter == C20_Last(C20_OfType("CHAPTER_HEADING", part + 1, i - 1))
        opened == IF chapter > 0 THEN chapter ELSE part
        section == C20_Last(C20_OfType("SECTION_HEADING", opened + 1, i - 1))
    IN IF section > 0 THEN section ELSE opened

\* C20: for every BODY_TEXT block output by StructurePhase, parent_heading
\* is the text of the nearest enclosing heading under the pointer rules (a
\* part heading sets the part and clears chapter and section, a chapter
\* heading sets the chapter and clears the section, a section heading sets
\* the section): the current section if set, else the current chapter, else
\* the current part, else none; so never a section from before the latest
\* chapter or part heading, nor a chapter from before the latest part
\* heading.
C20_ParentOfBody ==
    Returned =>
        \A i \in 1..Len(structured_blocks) :
            structured_blocks[i].block_type = "BODY_TEXT" =>
                structured_blocks[i].parent_heading =
                    IF C20_Enclosing(i) = 0 THEN None
                    ELSE Some(structured_blocks[C20_Enclosing(i)].content)

\* a returned run with a section heading, then a chapter heading, then a
\* body block whose parent is the chapter
C20_Witness ==
    /\ Returned
    /\ Len(structured_blocks) = 4
    /\ structured_blocks[1].block_type = "SECTION_HEADING"
    /\ structured_blocks[2].block_type = "CHAPTER_HEADING"
    /\ structured_blocks[3].block_type = "BODY_TEXT"
    /\ structured_blocks[3].parent_heading = Some(structured_blocks[2].content)
    /\ structured_blocks[1].content # structured_blocks[2].content

\* a returned run with a chapter heading, then a part heading, then a body
\* block whose parent is the part
C20_WitnessPart ==
    /\ Returned
    /\ \E c, p, b \in 1..Len(structured_blocks) :
          /\ c < p /\ p < b
          /\ structured_blocks[c].block_type = "CHAPTER_HEADING"
          /\ structured_blocks[p].block_type = "PART_HEADING"
          /\ structured_blocks[b].block_type = "BODY_TEXT"
          /\ structured_blocks[b].parent_heading
                = Some(structured_blocks[p].content)


\* C21: HEADER and FOOTER blocks output by StructurePhase get parent_heading
\* by the rule of BODY_TEXT blocks: the text of the current section, else of
\* the current chapter, else of the current part, else none. The enclosing
\* heading is found by position among the heading blocks alone, so that
\* BODY_TEXT, HEADER and FOOTER blocks change no pointer.
C21_ParentOfHeaderFooter ==
    Returned =>
        \A i \in 1..Len(structured_blocks) :
            structured_blocks[i].block_type \in {"BODY_TEXT", "HEADER", "FOOTER"}
                => structured_blocks[i].parent_heading =
                       IF C20_Enclosing(i) = 0 THEN None
                       ELSE Some(structured_blocks[C20_Enclosing(i)].content)


\* the hierarchy of the returned metadata
C22_Hierarchy == s_metadata[1].hierarchy

C22_Elements(seq) == { seq[k] : k \in 1..Len(seq) }

\* the nodes of a hierarchy that stand for a heading block, as (type, title,
\* page): the parts, the chapters at the root and in the parts (an 'Unnamed
\* Chapter' has no page and stands for no block), and their sections
C22_Nodes(hierarchy) ==
    LET roots == C22_Elements(hierarchy)
        parts == { n \in roots : n.type = "part" }
        chapters == { n \in roots : n.type = "chapter" }
                    \cup UNION { C22_Elements(p.chapters) : p \in parts }
        sections == UNION { C22_Elements(c.sections) : c \in chapters }
        named == { n \in parts \cup chapters : "page" \in DOMAIN n }
    IN { <<n.type, n.title, n.page>> : n \in named \cup sections }

C22_NodeType(block_type) ==
    CASE block_type = "PART_HEADING" -> "part"
      [] block_type = "CHAPTER_HEADING" -> "chapter"
      [] block_type = "SECTION_HEADING" -> "section"

C22_Headings ==
    { i \in 1..Len(structured_blocks) :
        structured_blocks[i].block_type
            \in {"PART_HEADING", "CHAPTER_HEADING", "SECTION_HEADING"} }

\* C22: every block that StructurePhase classified PART_HEADING,
\* CHAPTER_HEADING or SECTION_HEADING is a node of the hierarchy of the
\* returned metadata, with its text and its page; and when there is at least
\* one such block the hierarchy is not empty.
C22_HeadingsInHierarchy ==
    Returned =>
        /\ \A i \in C22_Headings :
              <<C22_NodeType(structured_blocks[i].block_type),
                structured_blocks[i].content,
                structured_blocks[i].page_num>> \in C22_Nodes(C22_Hierarchy)
        /\ C22_Headings # {} => C22_Hierarchy # << >>


\* the part nodes of the returned hierarchy, in order: the m-th is the node
\* of the m-th PART_HEADING block
C23_PartNodes == SelectSeq(C22_Hierarchy, LAMBDA n : n.type = "part")

\* the number of the part that is open at block i, 0 when none is
C23_PartsBefore(i) == Cardinality(C20_OfType("PART_HEADING", 1, i - 1))

\* the chapters of a part node that stand for no chapter heading
C23_Unnamed(part) ==
    { k \in 1..Len(part.chapters) : "page" \notin DOMAIN part.chapters[k] }

C23_UnnamedTitle ==
    << "U", "n", "n", "a", "m", "e", "d", " ", "C", "h", "a", "p", "t", "e", "r" >>

C23_SectionOf(i) ==
    [type |-> "section", title |-> structured_blocks[i].content,
     page |-> structured_blocks[i].page_num]

\* the SECTION_HEADING blocks met while a part is open
C23_SectionsInPart ==
    { i \in C20_OfType("SECTION_HEADING", 1, Len(structured_blocks)) :
        C23_PartsBefore(i) > 0 }

\* those met before any chapter heading of the open part
C23_SectionsBeforeChapter ==
    { i \in C23_SectionsInPart :
        C20_OfType("CHAPTER_HEADING",
                   C20_Last(C20_OfType("PART_HEADING", 1, i - 1)) + 1,
                   i - 1) = {} }

\* the places of the sections held by the part nodes: (part, chapter, place)
C23_SectionPlaces ==
    { pcs \in (1..Len(C23_PartNodes)) \X (1..Len(structured_blocks))
                 \X (1..Len(structured_blocks)) :
        /\ pcs[2] <= Len(C23_PartNodes[pcs[1]].chapters)
        /\ pcs[3] <= Len(C23_PartNodes[pcs[1]].chapters[pcs[2]].sections) }

\* C23: in the hierarchy returned by StructurePhase, a SECTION_HEADING met
\* while a part is open and before any chapter heading of that part is held
\* by an 'Unnamed Chapter' node of that part; a part has at most one such
\* node, so that further sections before the next chapter heading are held by
\* the same node; and every section met while a part is open is held once,
\* by a chapter of that part and of no other part.
C23_UnnamedChapterOfPart ==
    Returned =>
        /\ \A i \in C23_SectionsBeforeChapter :
              LET part == C23_PartNodes[C23_PartsBefore(i)] IN
              /\ C23_Unnamed(part) # {}
              /\ \A k \in C23_Unnamed(part) :
                    /\ part.chapters[k].title = C23_UnnamedTitle
                    /\ C23_SectionOf(i) \in C22_Elements(part.chapters[k].sections)
        /\ \A m \in 1..Len(C23_PartNodes) :
              Cardinality(C23_Unnamed(C23_PartNodes[m])) <= 1
        /\ \A i \in C23_SectionsInPart :
              \E k \in 1..Len(C23_PartNodes[C23_PartsBefore(i)].chapters) :
                  C23_SectionOf(i) \in C22_Elements(
                      C23_PartNodes[C23_PartsBefore(i)].chapters[k].sections)
        /\ Cardinality(C23_SectionPlaces) = Cardinality(C23_SectionsInPart)

\* a returned run with a part heading followed by two section headings, both
\* held by the one 'Unnamed Chapter' of the part
C23_Witness ==
    /\ Returned
    /\ Len(structured_blocks) = 4
    /\ structured_blocks[1].block_type = "PART_HEADING"
    /\ structured_blocks[2].block_type = "SECTION_HEADING"
    /\ structured_blocks[3].block_type = "SECTION_HEADING"
    /\ Len(C22_Hierarchy) = 1
    /\ Len(C22_Hierarchy[1].chapters) >= 1
    /\ C22_Hierarchy[1].chapters[1].title = C23_UnnamedTitle
    /\ Len(C22_Hierarchy[1].chapters[1].sections) = 2

\* a returned run with a part and a chapter, then a second part and a section
\* held by the 'Unnamed Chapter' of the second part
C23_WitnessSecondPart ==
    /\ Returned
    /\ Len(structured_blocks) = 4
    /\ structured_blocks[1].block_type = "PART_HEADING"
    /\ structured_blocks[2].block_type = "CHAPTER_HEADING"
    /\ structured_blocks[3].block_type = "PART_HEADING"
    /\ structured_blocks[4].block_type = "SECTION_HEADING"
    /\ Len(C22_Hierarchy) = 2
    /\ C22_Hierarchy[1].chapters[1].sections = << >>
    /\ C22_Hierarchy[2].chapters = << UnnamedChapter(C23_SectionOf(4)) >>


\* the positive font sizes of the document, one per block that has one
C24_Sizes ==
    SelectSeq([i \in 1..Len(s_text_blocks) |-> s_text_blocks[i].font_size],
              LAMBDA f : f # None /\ f[1] > 0)

\* the level of the rank of a size among the n collected ones, where at_most
\* of them are not larger than it: the top 10% of the ranks give 0, the next
\* 15% give 1, the next 15% give 2 and the rest 3, the largest size being of
\* the top rank
C24_LevelOfRank(at_most, n) ==
    IF 10 * at_most >= 9 * n THEN 0
    ELSE IF 4 * at_most >= 3 * n THEN 1
    ELSE IF 5 * at_most >= 3 * n THEN 2
    ELSE 3

C24_Level(i) ==
    LET font_size == s_text_blocks[i].font_size IN
    IF font_size = None \/ font_size[1] <= 0 THEN 3
    ELSE C24_LevelOfRank(
             Cardinality({ k \in 1..Len(C24_Sizes) :
                             C24_Sizes[k][1] <= font_size[1] }),
             Len(C24_Sizes))

\* C24: after a heuristic pass that ended without an exception, a block it
\* classified as a heading has the level of the rank of its font size among
\* the positive font sizes of the document (top 10%: 0, next 15%: 1, next
\* 15%: 2, rest: 3); so the heading with the largest font size has level 0
\* whatever the number of blocks, and a heading without a font size has
\* level 3.
C24_LevelOfFontRank ==
    (C10_HeuristicsDecided /\ exception = "") =>
        \A i \in 1..Len(block_types) :
            block_types[i] \in HeadingTypes => block_levels[i] = C24_Level(i)


\* the sentences of a sequence joined by one space
RECURSIVE C25_Joined(_)
C25_Joined(sentences) ==
    IF sentences = << >> THEN << >>
    ELSE IF Len(sentences) = 1 THEN sentences[1]
    ELSE sentences[1] \o << " " >> \o C25_Joined(Tail(sentences))

C25_HasBlankLine(s) ==
    \E i \in 1..(Len(s) - 1) : s[i] = "\n" /\ s[i + 1] = "\n"

C25_Content == Strip(text_blocks[1].content)

C25_Sentences == _split_by_sentences(C25_Content)

\* a finished run, all split flags enabled, of one block longer than
\* max_chunk_size with no blank line and no sentence longer than
\* max_chunk_size
C25_Case ==
    /\ cpc = "done"
    /\ split_by_paragraph /\ split_by_sentence /\ split_by_word
    /\ Len(text_blocks) = 1
    /\ Len(C25_Content) > max_chunk_size
    /\ ~C25_HasBlankLine(C25_Content)
    /\ \A k \in 1..Len(C25_Sentences) : Len(C25_Sentences[k]) <= max_chunk_size

\* the chunks are within max_chunk_size and are the sentences of the block,
\* in order, cut into runs of consecutive sentences joined by one space:
\* cut[j] is the number of sentences in the first j chunks
C25_WholeSentences ==
    /\ \A j \in 1..Len(chunks) : Len(chunks[j].content) <= max_chunk_size
    /\ \E cut \in [0..Len(chunks) -> 0..Len(C25_Sentences)] :
          /\ cut[0] = 0
          /\ cut[Len(chunks)] = Len(C25_Sentences)
          /\ \A j \in 1..Len(chunks) :
                /\ cut[j - 1] < cut[j]
                /\ chunks[j].content =
                       C25_Joined(SubSeq(C25_Sentences, cut[j - 1] + 1, cut[j]))

\* the least integer not below num / den
C25_Ceil(num, den) == (num + den - 1) \div den

\* C25 as stated: with all three split flags enabled, a single block longer
\* than max_chunk_size with no blank line and sentences that each fit is
\* emitted as at least ceil(length / max_chunk_size) chunks, each of at most
\* max_chunk_size characters, each made of whole consecutive sentences joined
\* by one space, in the original sentence order.
C25_SentenceChunksOfLength ==
    C25_Case =>
        /\ Len(chunks) >= C25_Ceil(Len(C25_Content), max_chunk_size)
        /\ C25_WholeSentences

\* C25 as amended: the same, with at least
\* ceil((joined + 1) / (max_chunk_size + 1)) chunks, where joined is the
\* length of the sentences of the block joined by one space.
C25_SentenceChunks ==
    C25_Case =>
        /\ Len(chunks) >= C25_Ceil(Len(C25_Joined(C25_Sentences)) + 1,
                                   max_chunk_size + 1)
        /\ C25_WholeSentences

\* such a run that emitted fewer chunks than sentences: some chunk is made of
\* several sentences
C25_Witness ==
    /\ C25_Case
    /\ Len(chunks) >= 2
    /\ Len(chunks) < Len(C25_Sentences)


\* a finished run of one block whose trimmed content is longer than
\* max_chunk_size
C26_OversizedBlock ==
    /\ cpc = "done"
    /\ Len(text_blocks) = 1
    /\ Len(C25_Content) > max_chunk_size

C26_Contents == [j \in 1..Len(chunks) |-> chunks[j].content]

\* the units the paragraph stage hands on: the paragraphs of the block, the
\* block itself when the stage is disabled
C26_ParagraphUnits ==
    LET paragraphs == IF split_by_paragraph
                      THEN StripNonEmpty(SplitBlankLines(C25_Content, << >>))
                      ELSE << C25_Content >>
    IN C22_Elements(paragraphs)

\* pieces are chunks that follow each other in the output
C26_EmittedInARow(pieces) ==
    \E start \in 0..Len(chunks) :
        SubSeq(C26_Contents, start + 1, start + Len(pieces)) = pieces

\* C26: a disabled cascade stage hands its input on as one unit. For a block
\* longer than max_chunk_size: with split_by_paragraph disabled the output
\* is that of the sentence stage on the whole block, blank lines included;
\* with split_by_sentence disabled and split_by_word enabled the word chunks
\* of every oversized paragraph are emitted in a row; with split_by_word
\* disabled every oversized sentence-stage unit is emitted as one chunk; with
\* all three disabled the block is emitted as exactly one chunk whose content
\* is its trimmed content.
C26_DisabledStages ==
    C26_OversizedBlock =>
        /\ ~split_by_paragraph =>
              C26_Contents =
                  SentenceLoop(IF split_by_sentence
                               THEN _split_by_sentences(C25_Content)
                               ELSE << C25_Content >>, << >>, << >>)
        /\ (~split_by_sentence /\ split_by_word) =>
              \A p \in C26_ParagraphUnits :
                  Len(p) > max_chunk_size =>
                      C26_EmittedInARow(_split_by_words(p))
        /\ ~split_by_word =>
              \A u \in SentenceUnits(C25_Content) :
                  Len(u) > max_chunk_size => C26_EmittedInARow(<< u >>)
        /\ (~split_by_paragraph /\ ~split_by_sentence /\ ~split_by_word) =>
              C26_Contents = << C25_Content >>

\* such a run with all three stages disabled and a blank line in the block
C26_Witness ==
    /\ C26_OversizedBlock
    /\ ~split_by_paragraph /\ ~split_by_sentence /\ ~split_by_word
    /\ C25_HasBlankLine(C25_Content)
    /\ Len(chunks) = 1

\* such a run with only the sentence stage disabled, in which an oversized
\* paragraph of several words was cut by the word stage
C26_WitnessWordStage ==
    /\ C26_OversizedBlock
    /\ split_by_paragraph /\ ~split_by_sentence /\ split_by_word
    /\ \E p \in C26_ParagraphUnits :
          /\ Len(p) > max_chunk_size
          /\ Len(_split_by_words(p)) >= 2
          /\ Len(chunks) > Len(_split_by_words(p))


\* empty or made of whitespace only
C27_Blank(s) == \A k \in 1..Len(s) : s[k] \in Whitespace

\* the block loop is at a block whose content is empty after trimming
C27_AtBlankBlock ==
    /\ cpc = "blocks"
    /\ block_idx <= Len(block_groups[group_idx])
    /\ C27_Blank(block_groups[group_idx][block_idx].content)

\* C27: the step of the block loop at a block that is empty after trimming
\* leaves the accumulator and the emitted chunks as they are (nothing added,
\* no flush, no chunk); and after every step of TextChunker.run no emitted
\* chunk, from the accumulator or from a cascade stage, has empty or
\* whitespace-only content.
C27_BlankSkippedNoBlankChunk ==
    [][/\ C27_AtBlankBlock =>
             UNCHANGED <<current_chunk_content, group_chunks, g_chunk_num, chunks>>
       /\ \A i \in 1..Len(Emitted') : ~C27_Blank(Emitted'[i].content)]_vars

\* a finished run that emitted chunks from the accumulator and from the
\* cascade, on blocks one of which was whitespace only and one oversized
C27_Witness ==
    /\ cpc = "done"
    /\ \E b \in 1..Len(text_blocks) : C27_Blank(text_blocks[b].content)
    /\ \E b \in 1..Len(text_blocks) :
          Len(Strip(text_blocks[b].content)) > max_chunk_size
    /\ Len(chunks) >= 3


\* the whitespace-delimited words of the contents of a sequence of blocks or
\* of chunks, in order
RECURSIVE C28_Words(_)
C28_Words(items) ==
    IF items = << >> THEN << >>
    ELSE SplitWords(items[1].content, << >>) \o C28_Words(Tail(items))

\* C28: when TextChunker.run has ended, for every block sequence and every
\* combination of the split flags, the whitespace-delimited words of the
\* chunks read in chunk_num order are the whitespace-delimited words of the
\* input blocks in input order: nothing lost, duplicated or reordered.
C28_WordsPreserved ==
    cpc = "done" =>
        /\ \A i \in 1..(Len(chunks) - 1) :
              chunks[i].chunk_num < chunks[i + 1].chunk_num
        /\ C28_Words(chunks) = C28_Words(text_blocks)

\* a finished run over blocks of two chapter groups in which the cascade cut
\* a block and the accumulator merged or flushed others
C28_Witness ==
    /\ cpc = "done"
    /\ Len(block_groups) >= 2
    /\ \E b \in 1..Len(text_blocks) :
          Len(Strip(text_blocks[b].content)) > max_chunk_size
    /\ Len(C28_Words(chunks)) >= 4
    /\ Len(chunks) # Len(text_blocks)


\* the chapter of a page under the configuration: that of the last configured
\* chapter whose page range holds it, 'Unknown' when none does
C29_ChapterOfPage(page_num) ==
    LET holding == { k \in 1..Len(chapters_config) :
                       /\ chapters_config[k].start_page <= page_num
                       /\ page_num <= chapters_config[k].end_page }
    IN IF holding = {} THEN "Unknown"
       ELSE chapters_config[C20_Last(holding)].name

RECURSIVE C29_Concat(_)
C29_Concat(groups) ==
    IF groups = << >> THEN << >> ELSE groups[1] \o C29_Concat(Tail(groups))

\* the groups are the maximal runs of consecutive blocks of one chapter, and
\* together they are the input blocks, each once, in order
C29_MaximalRuns ==
    /\ C29_Concat(block_groups) = text_blocks
    /\ \A g \in 1..Len(block_groups) :
          /\ block_groups[g] # << >>
          /\ \A b \in 1..Len(block_groups[g]) :
                C29_ChapterOfPage(block_groups[g][b].page_num)
                    = C29_ChapterOfPage(block_groups[g][1].page_num)
    /\ \A g \in 1..(Len(block_groups) - 1) :
          C29_ChapterOfPage(block_groups[g][1].page_num)
              # C29_ChapterOfPage(block_groups[g + 1][1].page_num)

\* the chunks fall into one stretch per run, cut[g] being the number of
\* chunks up to the end of run g: the chunks of a stretch hold the words of
\* the blocks of its run and no other, and carry the chapter of the run
C29_ChunksOfRuns ==
    \E cut \in [0..Len(block_groups) -> 0..Len(chunks)] :
        /\ cut[0] = 0
        /\ cut[Len(block_groups)] = Len(chunks)
        /\ \A g \in 1..Len(block_groups) :
              /\ cut[g - 1] <= cut[g]
              /\ C28_Words(SubSeq(chunks, cut[g - 1] + 1, cut[g]))
                     = C28_Words(block_groups[g])
              /\ \A i \in (cut[g - 1] + 1)..cut[g] :
                    chunks[i].source_chapter
                        = C29_ChapterOfPage(block_groups[g][1].page_num)

\* C29: when TextChunker.run has ended on a chapter configuration, the block
\* groups are the maximal runs of consecutive blocks whose pages map to the
\* same chapter ('Unknown' for a page in no chapter), they hold every block
\* once in input order, and no chunk crosses a run boundary: every chunk
\* holds content of the blocks of one run only and its source_chapter is the
\* chapter of the pages of those blocks.
C29_ChunksWithinChapters ==
    (cpc = "done" /\ chapters_config # << >>) =>
        C29_MaximalRuns /\ C29_ChunksOfRuns

\* a finished run on a chapter configuration with three runs, the last of
\* pages in no chapter, and fewer chunks than blocks or more
C29_Witness ==
    /\ cpc = "done"
    /\ chapters_config # << >>
    /\ Len(chapters_config) = 2
    /\ Len(block_groups) = 3
    /\ chunks[Len(chunks)].source_chapter = "Unknown"
    /\ chunks[1].source_chapter = "A"
    /\ Len(chunks) > Len(text_blocks)

\* a finished run on the configuration of three chapters in which two blocks
\* of one chapter were merged into one chunk and the next chapter began a new
\* one
C29_WitnessMerged ==
    /\ cpc = "done"
    /\ Len(chapters_config) = 3
    /\ Len(block_groups) = 2
    /\ Len(block_groups[1]) = 2
    /\ Len(chunks) = 2
    /\ chunks[1].source_chapter # chunks[2].source_chapter


\* the run with use_regex the other way has ended, heuristics enabled
C30_BothRunsEnded ==
    /\ previous # None
    /\ spc \in {"done", "raised"}
    /\ use_heuristics

=============================================================================
